---- MODULE Spec2Model ----
(***************************************************************************)
(* talos-pilot: draining, rebooting and re-admitting a node.               *)
(*                                                                         *)
(* Model of crates/talos-pilot-tui/src/components/diagnostics/k8s.rs:      *)
(*   - drain_node_with_progress: the pod listing and its filter, the       *)
(*     per-pod eviction retry loop, the force-delete branches, the         *)
(*     messages given to the progress callback and the DrainResult that    *)
(*     is returned;                                                        *)
(*   - wait_for_node_ready: the disconnect phase and the readiness loop,   *)
(*     on a clock of whole seconds;                                        *)
(*   - cordon_node and uncordon_node;                                      *)
(*   - the reads check_pod_health, check_pdb_health,                       *)
(*     get_node_ready_status and node_exists;                              *)
(* of the operation on one node that composes them (cordon, drain,         *)
(* reboot, wait, uncordon), and of the rollout over a fleet, whose node    *)
(* list app.rs builds; and of get_discovery_members_with_retry of          *)
(* crates/talos-rs/src/talosctl.rs.  The scheduler API and talosctl are    *)
(* the environment: every list, get, evict, delete, patch, probe and       *)
(* fetch is answered by a response drawn from a small set.                 *)
(***************************************************************************)
EXTENDS Integers, Sequences, FiniteSets, TLC

\* ------------------------------------------------------------------------
\* Bounds of the model
\* ------------------------------------------------------------------------

\* Longest pod listing drawn freely from the catalog.
MaxPods == 2

\* Largest attempt budget exercised (per_pod_timeout_secs up to 2*MaxRetries+1).
MaxRetries == 2

\* Largest per_pod_timeout_secs for which max_attempts is computed on its own.
MaxTimeoutSecs == 60

\* Longest pod listing of the force-delete runs.
MaxGracePods == 1

\* The short readiness timeout (seconds), and the slack of the long one.
MaxWaitSecs == 12

\* Longest time (seconds) that one get_node_ready_status call takes.
MaxProbeSecs == 3

\* Largest fleet handed to a rollout.
MaxFleet == 3

\* Longest listing of PodDisruptionBudgets.
MaxPdbs == 2

\* Most conditions in a node's status.
MaxConditions == 2

\* Longest listing of pods handed to check_pod_health.
MaxHealthPods == 2

\* Most calls of cordon_node and uncordon_node in a row.
MaxCalls == 4

\* Longest fallback_node_ips handed to get_discovery_members_with_retry.
MaxFallback == 2

\* ------------------------------------------------------------------------
\* Program constants
\* ------------------------------------------------------------------------

\* tokio::time::sleep(Duration::from_millis(500)) after a successful eviction.
EvictSettleMs == 500

\* tokio::time::sleep(Duration::from_secs(2)) after a PDB-blocked eviction.
PdbBackoffMs == 2000

\* const VIP_MAX_RETRIES: u32 = 2; const BASE_DELAY_MS: u64 = 100;
VIP_MAX_RETRIES == 2
BASE_DELAY_MS == 100

\* "Each attempt waits 2 seconds, so max_attempts = timeout / 2".
SecsPerAttempt == 2

\* post_reboot_timeout_secs: 300 in DrainOptions::default().
PostRebootTimeoutDefault == 300

\* let disconnect_timeout = 60;
DisconnectTimeoutSecs == 60

\* tokio::time::sleep(Duration::from_secs(2)) between two disconnect probes.
DisconnectPollSecs == 2

\* let poll_interval = tokio::time::Duration::from_secs(5);
PollIntervalSecs == 5

\* ------------------------------------------------------------------------
\* Pods as the scheduler API lists them
\* ------------------------------------------------------------------------

MirrorAnnotation == "kubernetes.io/config.mirror"

\* metadata.namespace, metadata.name, metadata.annotations (its keys),
\* metadata.owner_references (their kinds), spec.volumes (their sources).
MkPod(ns, name, annotations, owners, volumes) ==
    [namespace |-> ns, name |-> name, annotations |-> annotations,
     owner_kinds |-> owners, volumes |-> volumes]

\* A static pod mirrored by the kubelet, a DaemonSet pod with a scratch volume,
\* a Deployment pod (owned by its ReplicaSet) and a bare pod.
StaticPod  == MkPod("kube-system", "kube-apiserver-w1", {MirrorAnnotation}, {"Node"}, {"hostPath"})
DaemonPodA == MkPod("ns", "pod-A", {}, {"DaemonSet"}, {"configMap", "emptyDir"})
DeployPodB == MkPod("ns", "pod-B", {"checksum/config"}, {"ReplicaSet"}, {"secret"})
BarePodC   == MkPod("ns", "pod-C", {}, {}, {})

Catalog == {StaticPod, DaemonPodA, DeployPodB, BarePodC}

\* Listings without repetition (a pod is listed once), up to n pods long.
Listings(n) ==
    {l \in UNION {[1..k -> Catalog] : k \in 0..n} :
        \A i, j \in DOMAIN l : i # j => l[i] # l[j]}

\* Node "w1" of the drain scenario: DaemonSet pod, Deployment pod, bare pod.
ScenarioW1 == <<DaemonPodA, DeployPodB, BarePodC>>

PodLists == Listings(MaxPods) \cup {ScenarioW1}

\* ------------------------------------------------------------------------
\* DrainOptions
\* ------------------------------------------------------------------------

TimeoutChoices == {0, 1, SecsPerAttempt * MaxRetries + 1}

\* grace_period_secs: Option<i64>.  A 64-bit integer is written as its four
\* 16-bit limbs in two's complement, least significant first, so that the
\* narrowing `grace as u32` keeps its width.
Limb == 2 ^ 16

I64(v) ==
    <<v % Limb, (v \div Limb) % Limb,
      IF v < 0 THEN Limb - 1 ELSE 0, IF v < 0 THEN Limb - 1 ELSE 0>>

\* 2^32 + 30: a positive value that does not fit 32 bits.
GraceBeyondU32 == <<30, 0, 1, 0>>

None == <<>>
Some(x) == <<x>>

GraceChoices ==
    {None, Some(I64(0)), Some(I64(30)), Some(I64(-1)), Some(GraceBeyondU32)}

\* The timeouts handed to wait_for_node_ready: none, a short one, the bound of
\* the disconnect phase, and one that outlasts the disconnect phase.
WaitTimeoutChoices ==
    {0, MaxWaitSecs, DisconnectTimeoutSecs, DisconnectTimeoutSecs + MaxWaitSecs}

DrainOptionsWith(graces, waits, timeouts, uncordons) ==
    [per_pod_timeout_secs     : TimeoutChoices,
     force_delete_unmanaged   : BOOLEAN,
     ignore_daemonsets        : BOOLEAN,
     delete_emptydir_data     : BOOLEAN,
     grace_period_secs        : graces,
     wait_for_node_ready      : waits,
     post_reboot_timeout_secs : timeouts,
     uncordon_after_reboot    : uncordons]

\* The options of the drain runs: the fields that drain_node_with_progress
\* does not read keep their defaults.
DrainOptionsSet ==
    DrainOptionsWith({None}, {TRUE}, {PostRebootTimeoutDefault}, {TRUE})

\* The options of the force-delete runs: every grace period of GraceChoices.
GraceOptionsSet ==
    DrainOptionsWith(GraceChoices, {TRUE}, {PostRebootTimeoutDefault}, {TRUE})

\* ------------------------------------------------------------------------
\* Scheduler API responses
\* ------------------------------------------------------------------------

\* The substrings that the drain loop looks for in e.to_string().
Markers == {"404", "not found", "429", "disruption budget",
            "PodDisruptionBudget", "Cannot evict"}

\* An error is its HTTP status and the set of markers its text contains
\* (the text carries the status code, the message and names from the request).
MkErr(code, text) == [ok |-> FALSE, code |-> code, text |-> text]

RespOk      == [ok |-> TRUE, code |-> 200, text |-> {}]
\* not found, for a pod whose generated name happens to contain "429"
ErrNotFound == MkErr(404, {"404", "not found", "429"})
ErrPdb      == MkErr(429, {"429", "Cannot evict", "disruption budget"})
ErrInternal == MkErr(500, {})
\* forbidden, with a name in the message that happens to contain "404"
ErrForbidden == MkErr(403, {"404"})

EvictResponses == {RespOk, ErrNotFound, ErrPdb, ErrInternal, ErrForbidden}

DeleteResponses == {RespOk, ErrInternal}

\* ------------------------------------------------------------------------
\* Pure helpers of drain_node_with_progress
\* ------------------------------------------------------------------------

\* Mutant: the mirror annotation is not looked at.
IsMirrorPodNever(pod) == FALSE

\* annotations.contains_key("kubernetes.io/config.mirror")
IsMirrorPod(pod) == MirrorAnnotation \in pod.annotations

\* refs.iter().any(|r| r.kind == "DaemonSet")
IsDaemonSetPod(pod) == "DaemonSet" \in pod.owner_kinds

ManagedKinds == {"ReplicaSet", "Deployment", "StatefulSet", "Job", "DaemonSet"}

\* refs.iter().any(|r| matches!(r.kind, "ReplicaSet" | ... | "DaemonSet"))
IsManaged(pod) == pod.owner_kinds \cap ManagedKinds # {}

\* volumes.iter().any(|v| v.empty_dir.is_some())
HasEmptyDir(pod) == "emptyDir" \in pod.volumes

\* Mutant: the ignore_daemonsets flag is read inverted.
SkipDaemonSetInverted(pod, opts) == IsDaemonSetPod(pod) /\ ~opts.ignore_daemonsets

\* if is_daemonset_pod && options.ignore_daemonsets { continue; }
SkipDaemonSet(pod, opts) == IsDaemonSetPod(pod) /\ opts.ignore_daemonsets

\* Mutant: the emptyDir skip is lost.
SkipEmptyDirNever(pod, opts) == FALSE

\* if has_emptydir && !options.delete_emptydir_data { continue; }
SkipEmptyDir(pod, opts) == HasEmptyDir(pod) /\ ~opts.delete_emptydir_data

\* The three `continue`s of the listing loop.
Skipped(pod, opts) ==
    IsMirrorPod(pod) \/ SkipDaemonSet(pod, opts) \/ SkipEmptyDir(pod, opts)

\* PodToEvict { namespace, name, is_managed }
PodToEvict(pod) ==
    [namespace |-> pod.namespace, name |-> pod.name, is_managed |-> IsManaged(pod)]

RECURSIVE CollectPods(_, _)
CollectPods(list, opts) ==
    IF list = <<>> THEN <<>>
    ELSE IF Skipped(Head(list), opts) THEN CollectPods(Tail(list), opts)
    ELSE <<PodToEvict(Head(list))>> \o CollectPods(Tail(list), opts)

\* format!("{}/{}", namespace, pod_name)
PodKey(p) == p.namespace \o "/" \o p.name

Max(a, b) == IF a >= b THEN a ELSE b

\* Mutant: the .max(1) floor is lost.
MaxAttemptsNoFloor(timeout_secs) == timeout_secs \div SecsPerAttempt

\* (options.per_pod_timeout_secs / 2).max(1) as usize
\* (u64 to usize keeps the value on the 64-bit targets; the timeouts drawn
\* here are far below 2^32 in any case)
MaxAttempts(timeout_secs) == Max(timeout_secs \div SecsPerAttempt, 1)

\* err_str.contains("404") || err_str.contains("not found")
IsNotFound(err_str) == "404" \in err_str \/ "not found" \in err_str

\* err_str.contains("429") || ... || err_str.contains("Cannot evict")
IsPdbBlocked(err_str) ==
    \/ "429" \in err_str
    \/ "disruption budget" \in err_str
    \/ "PodDisruptionBudget" \in err_str
    \/ "Cannot evict" \in err_str

\* Mutant: the PDB patterns are tested before the not-found patterns.
ClassifyPdbFirst(r) ==
    IF r.ok THEN "evicted"
    ELSE IF IsPdbBlocked(r.text) THEN "pdb"
    ELSE IF IsNotFound(r.text) THEN "gone"
    ELSE "other"

\* The order in which the match arm tests a response.
Classify(r) ==
    IF r.ok THEN "evicted"
    ELSE IF IsNotFound(r.text) THEN "gone"
    ELSE IF IsPdbBlocked(r.text) THEN "pdb"
    ELSE "other"

\* `grace as u32`: the low 32 bits of the i64.
AsU32(x) == <<x[1], x[2]>>

\* if let Some(grace) = options.grace_period_secs
\*     { DeleteParams::default().grace_period(grace as u32) }
\* else { DeleteParams::default().grace_period(0) }
DeleteGracePeriod(grace) ==
    IF grace # None THEN AsU32(grace[1]) ELSE <<0, 0>>

\* Mutant: the is_managed test is dropped from the force-delete condition.
CanForceDeleteAnyPod(opts, info) == opts.force_delete_unmanaged

\* options.force_delete_unmanaged && !pod_info.is_managed
CanForceDelete(opts, info) == opts.force_delete_unmanaged /\ ~info.is_managed

\* Mutant: the eviction is retried until it succeeds, whatever the budget.
LoopContinuesWithoutBudget(att, max, succ) == ~succ

\* Mutant: off by one in the attempt budget.
LoopContinuesOffByOne(att, max, succ) == att <= max /\ ~succ

\* while attempts < max_attempts && !success
LoopContinues(att, max, succ) == att < max /\ ~succ

\* Mutant: the branch after the loop runs for every pod without success.
AttemptsExhaustedAnyFailure(att, max, succ) == ~succ

\* if !success && attempts >= max_attempts
AttemptsExhausted(att, max, succ) == ~succ /\ att >= max

\* Mutant: success is reported when pods failed.
DrainSuccessInverted(failed) == failed # <<>>

\* Mutant: success is reported unconditionally.
DrainSuccessAlways(failed) == TRUE

\* success: failed_pods.is_empty()
DrainSuccess(failed) == failed = <<>>

\* ------------------------------------------------------------------------
\* State
\* ------------------------------------------------------------------------

VARIABLES
    options,            \* the DrainOptions of this call
    drain_callback,     \* the progress sink: "none", or how its calls end
    drain_progress,     \* the messages handed to the sink, in order
    pod_list,           \* what pods.list(spec.nodeName=node) returns
    pc,                 \* position in drain_node_with_progress
    pods_to_evict,      \* the candidates, in listing order
    total_pods,
    max_attempts,
    idx,                \* position of pod_info in pods_to_evict (idx + 1 in the code)
    attempts,
    success,            \* the per-pod `success` flag
    evicted,
    failed_pods,
    force_deleted_pods,
    trace,              \* the requests sent, in order, with their responses
    result              \* what the call returns

\* wait_for_node_ready
VARIABLES
    timeout_secs,
    wait_for_disconnect,
    progress_callback,  \* TRUE when the caller passed Some(callback)
    wait_pc,            \* position in wait_for_node_ready
    now,                \* the monotonic clock, in whole seconds
    start,              \* let start = Instant::now()
    disconnect_start,   \* let disconnect_start = Instant::now()
    disconnected,
    phase1_last,        \* what the latest probe of the disconnect loop answered
    phase1_probe_at,    \* the clock when that probe was started
    phase1_answer_at,   \* the clock when it answered
    phase2_start,       \* the clock when the readiness loop was entered
    phase2_last,        \* what the latest probe of the readiness loop answered
    phase2_errors,      \* the probes of the readiness loop that answered Err
    progress,           \* the kinds of message handed to the callback
    wait_result         \* what the call returns

\* The operation on one node, and the node as the scheduler API holds it
VARIABLES
    life_pc,            \* the step of the operation
    life_history,       \* the steps entered so far, in order
    life_error,         \* what the operation reports as having gone wrong
    unschedulable,      \* spec.unschedulable of the node
    node_requests       \* cordon, reboot and uncordon requests, with their outcome

\* A rollout over the fleet
VARIABLES
    fleet_input,        \* the (hostname, address, is_controlplane) tuples of the action
    rollout_nodes,      \* the RollingNodeInfo list handed to the orchestrator
    failure_policy,     \* "continue" or "abort"
    rollout_pc,         \* position in the rollout
    visit_order,        \* the nodes in the order they are visited
    rollout_pos,        \* position of the current node in visit_order
    node_steps,         \* the step of each node's operation, by hostname
    fleet_requests,     \* the steps issued, in order, with node and outcome
    outcomes,           \* the outcome log of the RolloutRun
    rollout_status      \* InProgress, Completed or AbortedOnFailure

\* A read of the scheduler API, or a cordon/uncordon, called on its own
VARIABLES
    last_call,          \* the latest call: function, what the API held, result
    \* get_discovery_members_with_retry
    fallback_node_ips,  \* the fallback_node_ips of this call
    disc_pc,            \* where the function stands
    attempt,            \* the loop variable of the VIP loop
    shuffled_ips,       \* the fallback addresses still to try, as shuffled
    last_error,         \* Option<TalosError>
    disc_trace,         \* the fetches made and the sleeps after them, in order
    disc_result         \* what the function returned

drainVars == <<options, drain_callback, pod_list, pc, pods_to_evict, total_pods,
               max_attempts, idx, attempts, success, evicted, failed_pods,
               force_deleted_pods, trace, drain_progress, result>>

waitVars == <<timeout_secs, wait_for_disconnect, progress_callback, wait_pc, now,
              start, disconnect_start, disconnected, phase1_last, phase1_probe_at,
              phase1_answer_at, phase2_start, phase2_last, phase2_errors, progress, wait_result>>

lifeVars == <<life_pc, life_history, life_error, unschedulable, node_requests>>

fleetVars == <<fleet_input, rollout_nodes, failure_policy, rollout_pc, visit_order,
               rollout_pos, node_steps, fleet_requests, outcomes, rollout_status>>

discVars == <<fallback_node_ips, disc_pc, attempt, shuffled_ips, last_error,
              disc_trace, disc_result>>

vars == <<drainVars, waitVars, lifeVars, fleetVars, last_call, discVars>>

NoResult == [kind |-> "none"]

pod_info == pods_to_evict[idx]

\* A request and its response; for an eviction, the sleep that follows it.
EvictEvent(p, r, ms) ==
    [op |-> "evict", pod |-> PodKey(p), resp |-> r, slept |-> ms, grace |-> None]
DeleteEvent(p, r) ==
    [op |-> "delete", pod |-> PodKey(p), resp |-> r, slept |-> 0,
     grace |-> DeleteGracePeriod(options.grace_period_secs)]

\* wait_for_node_ready before it is called with timeout t, wait_for_disconnect
\* d and progress callback cb.
WaitNotStarted(t, d, cb) ==
    /\ timeout_secs = t
    /\ wait_for_disconnect = d
    /\ progress_callback = cb
    /\ wait_pc = "start"
    /\ now = 0
    /\ start = 0
    /\ disconnect_start = 0
    /\ disconnected = FALSE
    /\ phase1_last = "none"
    /\ phase1_probe_at = -1
    /\ phase1_answer_at = -1
    /\ phase2_start = -1
    /\ phase2_last = "none"
    /\ phase2_errors = 0
    /\ progress = {}
    /\ wait_result = NoResult

NoCall == [fn |-> "none"]

\* No rollout has been set up.
FleetNotStarted ==
    /\ fleet_input = <<>>
    /\ rollout_nodes = <<>>
    /\ failure_policy = "continue"
    /\ rollout_pc = "idle"
    /\ visit_order = <<>>
    /\ rollout_pos = 0
    /\ node_steps = <<>>
    /\ fleet_requests = <<>>
    /\ outcomes = <<>>
    /\ rollout_status = "InProgress"

\* get_discovery_members_with_retry is not called.
DiscoveryNotStarted ==
    /\ fallback_node_ips = <<>>
    /\ disc_pc = "idle"
    /\ attempt = 0
    /\ shuffled_ips = <<>>
    /\ last_error = None
    /\ disc_trace = <<>>
    /\ disc_result = NoResult

\* No operation on the node is under way; its spec.unschedulable is u.
LifeNotStarted(u) ==
    /\ life_pc = "Idle"
    /\ life_history = <<"Idle">>
    /\ life_error = ""
    /\ unschedulable = u
    /\ node_requests = <<>>

\* drain_node_with_progress before it is called.
DrainNotStarted ==
    /\ pc = "start"
    /\ pods_to_evict = <<>>
    /\ total_pods = 0
    /\ max_attempts = 0
    /\ idx = 0
    /\ attempts = 0
    /\ success = FALSE
    /\ evicted = 0
    /\ failed_pods = <<>>
    /\ force_deleted_pods = <<>>
    /\ trace = <<>>
    /\ drain_progress = <<>>
    /\ result = NoResult

Init ==
    /\ options \in DrainOptionsSet
    /\ drain_callback = "none"
    /\ pod_list \in PodLists
    /\ WaitNotStarted(PostRebootTimeoutDefault, FALSE, FALSE)
    /\ LifeNotStarted(FALSE)
    /\ FleetNotStarted
    /\ last_call = NoCall
    /\ DiscoveryNotStarted
    /\ pc = "start"
    /\ pods_to_evict = <<>>
    /\ total_pods = 0
    /\ max_attempts = 0
    /\ idx = 0
    /\ attempts = 0
    /\ success = FALSE
    /\ evicted = 0
    /\ failed_pods = <<>>
    /\ force_deleted_pods = <<>>
    /\ trace = <<>>
    /\ drain_progress = <<>>
    /\ result = NoResult

\* The progress messages of the drain, as format! builds them: kind names the
\* call site, p is the pod, a and b are the two numbers of the message.
ProgressText(kind, p, a, b) ==
    LET fraction == " (" \o ToString(a) \o "/" \o ToString(b) \o ")"
    IN CASE kind = "found" -> "Found " \o ToString(a) \o " pods to evict"
         [] kind = "evicting" -> "Evicting " \o PodKey(p) \o fraction
         [] kind = "evicted" -> "Evicted " \o PodKey(p) \o fraction
         [] kind = "gone" -> "Pod gone " \o PodKey(p) \o fraction
         [] kind = "pdb" -> "Waiting for PDB: " \o PodKey(p) \o " (retry "
                                \o ToString(a) \o "/" \o ToString(b) \o ")"
         [] kind = "force_deleting" -> "Force deleting unmanaged pod " \o PodKey(p)
         [] kind = "force_deleting_after_timeout" ->
                "Force deleting unmanaged pod " \o PodKey(p) \o " after timeout"
         [] kind = "force_deleted" -> "Force deleted " \o PodKey(p) \o fraction
         [] kind = "failed" -> "Failed: " \o PodKey(p)
         [] kind = "timeout" -> "Timeout: " \o PodKey(p)

\* A message handed to the sink when n requests had been issued.
Said(text, n) == [text |-> text, after |-> n]

\* if let Some(ref cb) = progress_callback { cb(..) }, for each message of
\* `said` in turn, then the function goes on at `label`.  The call is made
\* in line: with a sink that does not return the function stays in the call,
\* with a sink that panics it unwinds, at the first message.
Report(said, label) ==
    IF drain_callback = "none" \/ said = <<>>
    THEN /\ pc' = label
         /\ UNCHANGED drain_progress
    ELSE IF drain_callback = "returns"
    THEN /\ pc' = label
         /\ drain_progress' = drain_progress \o said
    ELSE /\ pc' = IF drain_callback = "blocks" THEN "blocked" ELSE "panicked"
         /\ drain_progress' = Append(drain_progress, Head(said))

\* After the messages `said`, the for loop takes the pod at position i of
\* the candidates (cb("Evicting .."); let mut attempts = 0; let mut success =
\* false), or ends when there is none; n requests have been issued.
EnterPod(i, candidates, said, n) ==
    /\ idx' = i
    /\ attempts' = 0
    /\ success' = FALSE
    /\ IF i <= Len(candidates)
       THEN Report(Append(said, Said(ProgressText("evicting", candidates[i], i, Len(candidates)), n)),
                   "while")
       ELSE Report(said, "return")

\* Mutant: the listing failure is told to the sink before it is returned.
ListPodsFailedReported ==
    /\ pc = "start"
    /\ Report(<<Said("Failed to list pods", 0)>>, "error")
    /\ result' = [kind |-> "err"]
    /\ UNCHANGED <<options, drain_callback, pod_list, pods_to_evict, total_pods,
                   max_attempts, idx, attempts, success, evicted, failed_pods,
                   force_deleted_pods, trace>>

\* pods.list(...) fails: map_err(...)? returns Err(K8sError::ApiError).
ListPodsFailed ==
    /\ pc = "start"
    /\ pc' = "error"
    /\ result' = [kind |-> "err"]
    /\ UNCHANGED <<options, drain_callback, pod_list, pods_to_evict, total_pods,
                   max_attempts, idx, attempts, success, evicted, failed_pods,
                   force_deleted_pods, trace, drain_progress>>

\* pods.list(...) succeeds: filter the listing, set the counters, report the
\* count, set max_attempts, enter the for loop.
ListPods ==
    /\ pc = "start"
    /\ pods_to_evict' = CollectPods(pod_list, options)
    /\ total_pods' = Len(pods_to_evict')
    /\ evicted' = 0
    /\ failed_pods' = <<>>
    /\ force_deleted_pods' = <<>>
    /\ max_attempts' = MaxAttempts(options.per_pod_timeout_secs)
    /\ EnterPod(1, pods_to_evict', <<Said(ProgressText("found", <<>>, total_pods', 0), 0)>>, 0)
    /\ UNCHANGED <<options, drain_callback, pod_list, trace, result>>

\* evict answered Ok: count it, report it, sleep 500 ms.
EvictOk(r) ==
    /\ evicted' = evicted + 1
    /\ success' = TRUE
    /\ trace' = Append(trace, EvictEvent(pod_info, r, EvictSettleMs))
    /\ Report(<<Said(ProgressText("evicted", pod_info, evicted + 1, total_pods), Len(trace) + 1)>>,
              "while")
    /\ UNCHANGED <<attempts, failed_pods, force_deleted_pods, idx>>

\* Mutant: a pod that is already gone is not counted.
EvictGoneUncounted(r) ==
    /\ success' = TRUE
    /\ trace' = Append(trace, EvictEvent(pod_info, r, 0))
    /\ Report(<<Said(ProgressText("gone", pod_info, evicted, total_pods), Len(trace) + 1)>>, "while")
    /\ UNCHANGED <<evicted, attempts, failed_pods, force_deleted_pods, idx>>

\* evict answered "404"/"not found": pod already gone, count as success; continue.
EvictGone(r) ==
    /\ evicted' = evicted + 1
    /\ success' = TRUE
    /\ trace' = Append(trace, EvictEvent(pod_info, r, 0))
    /\ Report(<<Said(ProgressText("gone", pod_info, evicted + 1, total_pods), Len(trace) + 1)>>,
              "while")
    /\ UNCHANGED <<attempts, failed_pods, force_deleted_pods, idx>>

\* Mutant: the `continue` leaves the pod behind and goes on with the next one.
EvictPdbBlockedMovesOn(r) ==
    /\ trace' = Append(trace, EvictEvent(pod_info, r, PdbBackoffMs))
    /\ EnterPod(idx + 1, pods_to_evict,
                <<Said(ProgressText("pdb", pod_info, attempts + 1, max_attempts), Len(trace) + 1)>>,
                Len(trace) + 1)
    /\ UNCHANGED <<evicted, failed_pods, force_deleted_pods>>

\* Mutant: a PDB-blocked eviction is retried without a word to the sink.
EvictPdbBlockedSilent(r) ==
    /\ attempts' = attempts + 1
    /\ trace' = Append(trace, EvictEvent(pod_info, r, PdbBackoffMs))
    /\ Report(<<>>, "while")
    /\ UNCHANGED <<success, evicted, failed_pods, force_deleted_pods, idx>>

\* evict answered PDB-blocked: attempts += 1, report the retry, sleep 2 s;
\* continue.
EvictPdbBlocked(r) ==
    /\ attempts' = attempts + 1
    /\ trace' = Append(trace, EvictEvent(pod_info, r, PdbBackoffMs))
    /\ Report(<<Said(ProgressText("pdb", pod_info, attempts + 1, max_attempts), Len(trace) + 1)>>,
              "while")
    /\ UNCHANGED <<success, evicted, failed_pods, force_deleted_pods, idx>>

\* Mutant: the `break` is lost, the loop goes round again.
EvictOtherErrorNoBreak(r) ==
    /\ trace' = Append(trace, EvictEvent(pod_info, r, 0))
    /\ IF CanForceDelete(options, pod_info)
       THEN /\ Report(<<Said(ProgressText("force_deleting", pod_info, 0, 0), Len(trace) + 1)>>,
                      "delete_in_loop")
            /\ UNCHANGED failed_pods
       ELSE /\ failed_pods' = Append(failed_pods, PodKey(pod_info))
            /\ Report(<<Said(ProgressText("failed", pod_info, 0, 0), Len(trace) + 1)>>, "while")
    /\ UNCHANGED <<attempts, success, evicted, force_deleted_pods, idx>>

\* evict answered with another error: announce and go to the force delete if
\* it is allowed, else record the pod as failed and report it; break.
EvictOtherError(r) ==
    /\ trace' = Append(trace, EvictEvent(pod_info, r, 0))
    /\ IF CanForceDelete(options, pod_info)
       THEN /\ Report(<<Said(ProgressText("force_deleting", pod_info, 0, 0), Len(trace) + 1)>>,
                      "delete_in_loop")
            /\ UNCHANGED failed_pods
       ELSE /\ failed_pods' = Append(failed_pods, PodKey(pod_info))
            /\ Report(<<Said(ProgressText("failed", pod_info, 0, 0), Len(trace) + 1)>>, "after_loop")
    /\ UNCHANGED <<attempts, success, evicted, force_deleted_pods, idx>>

\* while attempts < max_attempts && !success { match ns_pods.evict(..).await {..} }
Evict ==
    /\ pc = "while"
    /\ LoopContinues(attempts, max_attempts, success)
    /\ \E r \in EvictResponses :
         \/ Classify(r) = "evicted" /\ EvictOk(r)
         \/ Classify(r) = "gone" /\ EvictGone(r)
         \/ Classify(r) = "pdb" /\ EvictPdbBlocked(r)
         \/ Classify(r) = "other" /\ EvictOtherError(r)
    /\ UNCHANGED <<options, drain_callback, pod_list, pods_to_evict, total_pods,
                   max_attempts, result>>

\* match ns_pods.delete(..).await inside the loop (other-error branch); break.
DeleteInLoop ==
    /\ pc = "delete_in_loop"
    /\ \E d \in DeleteResponses :
         /\ trace' = Append(trace, DeleteEvent(pod_info, d))
         /\ IF d.ok
            THEN /\ evicted' = evicted + 1
                 /\ force_deleted_pods' = Append(force_deleted_pods, PodKey(pod_info))
                 /\ success' = TRUE
                 /\ Report(<<Said(ProgressText("force_deleted", pod_info, evicted + 1, total_pods),
                                  Len(trace) + 1)>>, "after_loop")
                 /\ UNCHANGED failed_pods
            ELSE /\ failed_pods' = Append(failed_pods, PodKey(pod_info))
                 /\ Report(<<Said(ProgressText("failed", pod_info, 0, 0), Len(trace) + 1)>>, "after_loop")
                 /\ UNCHANGED <<evicted, force_deleted_pods, success>>
    /\ UNCHANGED <<options, drain_callback, pod_list, pods_to_evict, total_pods,
                   max_attempts, idx, attempts, result>>

\* The loop is left (its condition is false, or a break): if !success &&
\* attempts >= max_attempts { force delete or record the failure }; then the
\* for loop goes on.
AfterLoop ==
    /\ \/ pc = "while" /\ ~LoopContinues(attempts, max_attempts, success)
       \/ pc = "after_loop"
    /\ IF AttemptsExhausted(attempts, max_attempts, success)
       THEN IF CanForceDelete(options, pod_info)
            THEN /\ Report(<<Said(ProgressText("force_deleting_after_timeout", pod_info, 0, 0), Len(trace))>>,
                           "delete_after_timeout")
                 /\ UNCHANGED <<failed_pods, idx, attempts, success>>
            ELSE /\ failed_pods' = Append(failed_pods, PodKey(pod_info))
                 /\ EnterPod(idx + 1, pods_to_evict,
                             <<Said(ProgressText("timeout", pod_info, 0, 0), Len(trace))>>, Len(trace))
       ELSE /\ EnterPod(idx + 1, pods_to_evict, <<>>, Len(trace))
            /\ UNCHANGED failed_pods
    /\ UNCHANGED <<options, drain_callback, pod_list, pods_to_evict, total_pods,
                   max_attempts, evicted, force_deleted_pods, trace, result>>

\* Mutant: a successful delete after the timeout is listed but not counted.
RecordDeleteAfterTimeoutUncounted(d) ==
    IF d.ok
    THEN /\ force_deleted_pods' = Append(force_deleted_pods, PodKey(pod_info))
         /\ UNCHANGED <<evicted, failed_pods>>
    ELSE /\ failed_pods' = Append(failed_pods, PodKey(pod_info))
         /\ UNCHANGED <<evicted, force_deleted_pods>>

\* The two arms of the delete after the attempts are exhausted.
RecordDeleteAfterTimeout(d) ==
    IF d.ok
    THEN /\ evicted' = evicted + 1
         /\ force_deleted_pods' = Append(force_deleted_pods, PodKey(pod_info))
         /\ UNCHANGED failed_pods
    ELSE /\ failed_pods' = Append(failed_pods, PodKey(pod_info))
         /\ UNCHANGED <<evicted, force_deleted_pods>>

\* What the two arms report: cb("Force deleted ..") or cb("Timeout: ..").
SaidAfterTimeoutDelete(d) ==
    IF d.ok THEN ProgressText("force_deleted", pod_info, evicted + 1, total_pods)
    ELSE ProgressText("timeout", pod_info, 0, 0)

\* match ns_pods.delete(..).await after the attempts are exhausted; then the
\* for loop goes on.
DeleteAfterTimeout ==
    /\ pc = "delete_after_timeout"
    /\ \E d \in DeleteResponses :
         /\ trace' = Append(trace, DeleteEvent(pod_info, d))
         /\ RecordDeleteAfterTimeout(d)
         /\ EnterPod(idx + 1, pods_to_evict,
                     <<Said(SaidAfterTimeoutDelete(d), Len(trace) + 1)>>, Len(trace) + 1)
    /\ UNCHANGED <<options, drain_callback, pod_list, pods_to_evict, total_pods,
                   max_attempts, result>>

\* Ok(DrainResult { success: failed_pods.is_empty(), pods_evicted: evicted, .. })
ReturnResult ==
    /\ pc = "return"
    /\ result' = [kind |-> "ok",
                  success |-> DrainSuccess(failed_pods),
                  pods_evicted |-> evicted,
                  failed_pods |-> failed_pods,
                  force_deleted_pods |-> force_deleted_pods]
    /\ pc' = "done"
    /\ UNCHANGED <<options, drain_callback, pod_list, pods_to_evict, total_pods,
                   max_attempts, idx, attempts, success, evicted, failed_pods,
                   force_deleted_pods, trace, drain_progress>>

\* drain_node_with_progress called on its own.
Next ==
    \/ ListPodsFailed /\ UNCHANGED <<waitVars, lifeVars, fleetVars, last_call, discVars>>
    \/ ListPods /\ UNCHANGED <<waitVars, lifeVars, fleetVars, last_call, discVars>>
    \/ Evict /\ UNCHANGED <<waitVars, lifeVars, fleetVars, last_call, discVars>>
    \/ DeleteInLoop /\ UNCHANGED <<waitVars, lifeVars, fleetVars, last_call, discVars>>
    \/ AfterLoop /\ UNCHANGED <<waitVars, lifeVars, fleetVars, last_call, discVars>>
    \/ DeleteAfterTimeout /\ UNCHANGED <<waitVars, lifeVars, fleetVars, last_call, discVars>>
    \/ ReturnResult /\ UNCHANGED <<waitVars, lifeVars, fleetVars, last_call, discVars>>

Spec == Init /\ [][Next]_vars

\* Every request of the drain is answered and the function goes on: each
\* .await returns.
SpecDrainFair == Spec /\ WF_vars(Next)

\* progress_callback: Option<DrainProgressCallback>.  None, or a boxed Fn(&str)
\* of the caller's, whose call returns, does not return, or panics.
DrainCallbacks == {"none", "returns", "blocks", "panics"}

\* drain_node_with_progress called on its own with any progress sink.
InitProgress ==
    /\ options \in DrainOptionsSet
    /\ drain_callback \in DrainCallbacks
    /\ pod_list \in PodLists
    /\ WaitNotStarted(PostRebootTimeoutDefault, FALSE, FALSE)
    /\ LifeNotStarted(FALSE)
    /\ FleetNotStarted
    /\ last_call = NoCall
    /\ DiscoveryNotStarted
    /\ DrainNotStarted

SpecProgress == InitProgress /\ [][Next]_vars

\* The force-delete runs: short listings, every grace period.
InitGrace ==
    /\ options \in GraceOptionsSet
    /\ drain_callback = "none"
    /\ pod_list \in Listings(MaxGracePods)
    /\ WaitNotStarted(PostRebootTimeoutDefault, FALSE, FALSE)
    /\ LifeNotStarted(FALSE)
    /\ FleetNotStarted
    /\ last_call = NoCall
    /\ DiscoveryNotStarted
    /\ DrainNotStarted

SpecGrace == InitGrace /\ [][Next]_vars

\* ------------------------------------------------------------------------
\* wait_for_node_ready
\* ------------------------------------------------------------------------

\* What get_node_ready_status answers: Ok(Ready), Ok(NotReady), Ok(Unknown)
\* or Err(_).
ProbeResults == {"Ready", "NotReady", "Unknown", "Err"}

\* How long one get_node_ready_status call takes, in whole seconds.
ProbeSecs == {0, MaxProbeSecs}

\* The messages handed to the progress callback, by their fixed text.
MsgBeginReboot  == "Waiting for node to begin rebooting..."
MsgRebooting    == "Node is rebooting..."
MsgNoDisconnect == "Warning: Node didn't appear to disconnect, continuing to wait..."
MsgComeBack     == "Waiting for node to come back online..."
MsgReady        == "Node is Ready"
MsgStatus       == "Node status"
MsgRejoin       == "Waiting for node to rejoin cluster"

\* if let Some(ref cb) = progress_callback { cb(...) }
Emit(msgs) == IF progress_callback THEN progress \cup msgs ELSE progress

\* Mutant: the disconnect loop has no bound.
DisconnectLoopContinuesUnbounded(elapsed) == TRUE

\* Mutant: the disconnect loop probes once more at the bound.
DisconnectLoopContinuesAtBound(elapsed) == elapsed <= DisconnectTimeoutSecs

\* while disconnect_start.elapsed().as_secs() < disconnect_timeout
DisconnectLoopContinues(elapsed) == elapsed < DisconnectTimeoutSecs

\* Mutant: a probe error does not count as a disconnect.
DisconnectObservedOkOnly(r) == r \in {"NotReady", "Unknown"}

\* Ok(NotReady) | Ok(Unknown) => ..., Err(_) => ...: disconnected = true; break
DisconnectObserved(r) == r \in {"NotReady", "Unknown", "Err"}

\* Mutant: the timeout is missed at the very second it is reached.
TimedOutLate(elapsed, timeout) == elapsed > timeout

\* if elapsed >= timeout_secs
TimedOut(elapsed, timeout) == elapsed >= timeout

\* NodeReadyResult { success, time_taken_secs, error }
NodeReadyResult(ok, elapsed, err) ==
    [kind |-> "ok", success |-> ok, time_taken_secs |-> elapsed, error |-> err]

\* cb("Waiting for node to come back online..."), then the readiness loop,
\* entered at clock t after the messages msgs of the disconnect phase.
EnterPhase2(t, msgs) ==
    /\ wait_pc' = "phase2"
    /\ phase2_start' = t
    /\ progress' = Emit(msgs \cup {MsgComeBack})

\* let start = Instant::now(); then the disconnect phase when it is asked for.
WaitStart ==
    /\ wait_pc = "start"
    /\ start' = now
    /\ IF wait_for_disconnect
       THEN /\ disconnect_start' = now
            /\ disconnected' = FALSE
            /\ wait_pc' = "phase1"
            /\ progress' = Emit({MsgBeginReboot})
            /\ UNCHANGED phase2_start
       ELSE /\ EnterPhase2(now, {})
            /\ UNCHANGED <<disconnect_start, disconnected>>
    /\ UNCHANGED <<timeout_secs, wait_for_disconnect, progress_callback, now,
                   phase1_last, phase1_probe_at, phase1_answer_at, phase2_last,
                   phase2_errors, wait_result>>

\* One turn of the disconnect loop: the probe, answered r after d seconds.
DisconnectProbe ==
    /\ wait_pc = "phase1"
    /\ DisconnectLoopContinues(now - disconnect_start)
    /\ \E r \in ProbeResults, d \in ProbeSecs :
         /\ phase1_last' = r
         /\ phase1_probe_at' = now
         /\ phase1_answer_at' = now + d
         /\ IF DisconnectObserved(r)
            THEN /\ disconnected' = TRUE
                 /\ now' = now + d
                 /\ EnterPhase2(now + d, {MsgRebooting})
            ELSE /\ now' = now + d + DisconnectPollSecs
                 /\ UNCHANGED <<disconnected, wait_pc, phase2_start, progress>>
    /\ UNCHANGED <<timeout_secs, wait_for_disconnect, progress_callback, start,
                   disconnect_start, phase2_last, phase2_errors, wait_result>>

\* The disconnect loop ends on its bound: if !disconnected { cb("Warning...") }.
DisconnectExpired ==
    /\ wait_pc = "phase1"
    /\ ~DisconnectLoopContinues(now - disconnect_start)
    /\ EnterPhase2(now, IF disconnected THEN {} ELSE {MsgNoDisconnect})
    /\ UNCHANGED <<timeout_secs, wait_for_disconnect, progress_callback, now, start,
                   disconnect_start, disconnected, phase1_last, phase1_probe_at,
                   phase1_answer_at, phase2_last, phase2_errors, wait_result>>

\* Mutant: the timeout is reported as a success.
ReadyTimeoutReportsSuccess ==
    /\ wait_pc = "phase2"
    /\ TimedOut(now - start, timeout_secs)
    /\ wait_result' = NodeReadyResult(TRUE, now - start, "")
    /\ wait_pc' = "done"
    /\ UNCHANGED <<timeout_secs, wait_for_disconnect, progress_callback, now, start,
                   disconnect_start, disconnected, phase1_last, phase1_probe_at,
                   phase1_answer_at, phase2_start, phase2_last, phase2_errors,
                   progress>>

\* The readiness loop finds the timeout reached: the failure result.
ReadyTimeout ==
    /\ wait_pc = "phase2"
    /\ TimedOut(now - start, timeout_secs)
    /\ wait_result' = NodeReadyResult(FALSE, now - start, "Timed out")
    /\ wait_pc' = "done"
    /\ UNCHANGED <<timeout_secs, wait_for_disconnect, progress_callback, now, start,
                   disconnect_start, disconnected, phase1_last, phase1_probe_at,
                   phase1_answer_at, phase2_start, phase2_last, phase2_errors,
                   progress>>

\* Mutant: a probe error ends the wait with a failure.
ReadyProbeAnsweredErrFails(r, d) ==
    IF r = "Ready"
    THEN /\ wait_result' = NodeReadyResult(TRUE, now - start, "")
         /\ wait_pc' = "done"
         /\ now' = now + d
         /\ progress' = Emit({MsgReady})
         /\ UNCHANGED phase2_errors
    ELSE IF r = "Err"
    THEN /\ wait_result' = NodeReadyResult(FALSE, now - start, "probe failed")
         /\ wait_pc' = "done"
         /\ now' = now + d
         /\ phase2_errors' = phase2_errors + 1
         /\ UNCHANGED progress
    ELSE /\ now' = now + d + PollIntervalSecs
         /\ progress' = Emit({MsgStatus})
         /\ UNCHANGED <<wait_result, wait_pc, phase2_errors>>

\* match get_node_ready_status(..).await, answered r after d seconds:
\* Ok(Ready) returns the success result with the elapsed time read before the
\* probe; Ok(status) and Err(_) report and sleep poll_interval.
ReadyProbeAnswered(r, d) ==
    IF r = "Ready"
    THEN /\ wait_result' = NodeReadyResult(TRUE, now - start, "")
         /\ wait_pc' = "done"
         /\ now' = now + d
         /\ progress' = Emit({MsgReady})
         /\ UNCHANGED phase2_errors
    ELSE /\ now' = now + d + PollIntervalSecs
         /\ progress' = Emit({IF r = "Err" THEN MsgRejoin ELSE MsgStatus})
         /\ phase2_errors' = IF r = "Err" THEN phase2_errors + 1 ELSE phase2_errors
         /\ UNCHANGED <<wait_result, wait_pc>>

\* One turn of the readiness loop with the timeout not reached.
ReadyProbe ==
    /\ wait_pc = "phase2"
    /\ ~TimedOut(now - start, timeout_secs)
    /\ \E r \in ProbeResults, d \in ProbeSecs :
         /\ phase2_last' = r
         /\ ReadyProbeAnswered(r, d)
    /\ UNCHANGED <<timeout_secs, wait_for_disconnect, progress_callback, start,
                   disconnect_start, disconnected, phase1_last, phase1_probe_at,
                   phase1_answer_at, phase2_start>>

\* DrainOptions::default()
DefaultDrainOptions ==
    [per_pod_timeout_secs     |-> 30,
     force_delete_unmanaged   |-> FALSE,
     ignore_daemonsets        |-> TRUE,
     delete_emptydir_data     |-> TRUE,
     grace_period_secs        |-> None,
     wait_for_node_ready      |-> TRUE,
     post_reboot_timeout_secs |-> PostRebootTimeoutDefault,
     uncordon_after_reboot    |-> TRUE]

\* wait_for_node_ready called on its own.
InitWait ==
    /\ \E t \in WaitTimeoutChoices, d \in BOOLEAN, cb \in BOOLEAN :
         WaitNotStarted(t, d, cb)
    /\ options = DefaultDrainOptions
    /\ drain_callback = "none"
    /\ pod_list = <<>>
    /\ DrainNotStarted
    /\ LifeNotStarted(FALSE)
    /\ FleetNotStarted
    /\ last_call = NoCall
    /\ DiscoveryNotStarted

NextWait ==
    \/ WaitStart /\ UNCHANGED <<drainVars, lifeVars, fleetVars, last_call, discVars>>
    \/ DisconnectProbe /\ UNCHANGED <<drainVars, lifeVars, fleetVars, last_call, discVars>>
    \/ DisconnectExpired /\ UNCHANGED <<drainVars, lifeVars, fleetVars, last_call, discVars>>
    \/ ReadyTimeout /\ UNCHANGED <<drainVars, lifeVars, fleetVars, last_call, discVars>>
    \/ ReadyProbe /\ UNCHANGED <<drainVars, lifeVars, fleetVars, last_call, discVars>>

SpecWait == InitWait /\ [][NextWait]_vars

\* The waits with no timeout or a short one, with and without the disconnect
\* phase.
InitWaitShort ==
    /\ InitWait
    /\ timeout_secs \in {0, MaxWaitSecs}

\* Time advances and every probe returns: each step of the wait is
\* eventually taken.
SpecWaitFair == InitWaitShort /\ [][NextWait]_vars /\ WF_vars(NextWait)

\* ------------------------------------------------------------------------
\* Cordon and uncordon; the operation on one node
\* ------------------------------------------------------------------------

\* What the node patch and the reboot call are answered.
PatchResponses == {RespOk, ErrInternal}

\* Mutant: the two arms of the match are swapped.
CordonResultInverted(r) ==
    [success |-> ~r.ok, error |-> IF r.ok THEN "patch failed" ELSE ""]

\* Mutant: a failed patch is reported as a success.
CordonResultAlwaysOk(r) == [success |-> TRUE, error |-> ""]

\* match nodes.patch(..).await { Ok(_) => Ok(CordonResult { success: true, .. }),
\*                               Err(e) => Ok(CordonResult { success: false, .. }) }
CordonResult(r) ==
    [success |-> r.ok, error |-> IF r.ok THEN "" ELSE "patch failed"]

\* A request about the node and its response.
NodeRequest(op, r) == [op |-> op, resp |-> r]

\* The merge patch {"spec": {"unschedulable": value}}, answered r: the node
\* takes the value when the patch is accepted.
PatchUnschedulable(op, value, r) ==
    /\ node_requests' = Append(node_requests, NodeRequest(op, r))
    /\ unschedulable' = IF r.ok THEN value ELSE unschedulable

\* The operation enters step s; a failure carries its explanation.
EnterStep(s, why) ==
    /\ life_pc' = s
    /\ life_history' = Append(life_history, s)
    /\ life_error' = IF why = "" THEN life_error ELSE why

\* The step after the node is back: Uncordoning only with uncordon_after_reboot.
StepAfterReady == IF options.uncordon_after_reboot THEN "Uncordoning" ELSE "Done"

\* The step after the reboot was accepted: WaitingReady only with
\* wait_for_node_ready.
StepAfterReboot == IF options.wait_for_node_ready THEN "WaitingReady" ELSE StepAfterReady

\* Idle -> Cordoning
StartOperation ==
    /\ life_pc = "Idle"
    /\ EnterStep("Cordoning", "")
    /\ UNCHANGED <<unschedulable, node_requests>>

\* Cordoning: cordon_node; failure -> Failed.
Cordon ==
    /\ life_pc = "Cordoning"
    /\ \E r \in PatchResponses :
         /\ PatchUnschedulable("cordon", TRUE, r)
         /\ IF CordonResult(r).success
            THEN EnterStep("Draining", "")
            ELSE EnterStep("Failed", "cordon failed")

\* Draining: drain_node_with_progress is running.
Draining == life_pc = "Draining" /\ pc \notin {"done", "error"}

\* Draining: the drain has returned; success = false or an error -> Failed.
DrainFinished ==
    /\ life_pc = "Draining"
    /\ pc \in {"done", "error"}
    /\ IF result.kind = "ok" /\ result.success
       THEN EnterStep("AwaitingExternalReboot", "")
       ELSE EnterStep("Failed", "drain failed")
    /\ UNCHANGED <<unschedulable, node_requests>>

\* AwaitingExternalReboot: the reboot call; failure -> Failed.
Reboot ==
    /\ life_pc = "AwaitingExternalReboot"
    /\ \E r \in PatchResponses :
         /\ node_requests' = Append(node_requests, NodeRequest("reboot", r))
         /\ IF r.ok
            THEN EnterStep(StepAfterReboot, "")
            ELSE EnterStep("Failed", "reboot failed")
    /\ UNCHANGED unschedulable

\* WaitingReady: wait_for_node_ready is running.
WaitingReady == life_pc = "WaitingReady" /\ wait_pc # "done"

\* WaitingReady: the wait has returned; timeout -> Failed.
WaitFinished ==
    /\ life_pc = "WaitingReady"
    /\ wait_pc = "done"
    /\ IF wait_result.success
       THEN EnterStep(StepAfterReady, "")
       ELSE EnterStep("Failed", "node not ready")
    /\ UNCHANGED <<unschedulable, node_requests>>

\* Uncordoning: uncordon_node; a failure is reported, the operation is Done.
Uncordon ==
    /\ life_pc = "Uncordoning"
    /\ \E r \in PatchResponses :
         /\ PatchUnschedulable("uncordon", FALSE, r)
         /\ EnterStep("Done", IF CordonResult(r).success THEN "" ELSE "uncordon failed")

\* The listings and options of the operation runs: a short attempt budget,
\* the skip options at their defaults, a short readiness timeout or none.
LifePodLists == {<<>>, <<DeployPodB>>, <<StaticPod, BarePodC>>}

LifeOptionsSet ==
    {o \in DrainOptionsWith({None}, BOOLEAN, {0, MaxWaitSecs}, BOOLEAN) :
        /\ o.per_pod_timeout_secs = 0
        /\ o.ignore_daemonsets
        /\ o.delete_emptydir_data}

InitLifecycle ==
    /\ options \in LifeOptionsSet
    /\ drain_callback = "none"
    /\ pod_list \in LifePodLists
    /\ DrainNotStarted
    /\ \E d \in BOOLEAN : WaitNotStarted(options.post_reboot_timeout_secs, d, TRUE)
    /\ \E u \in BOOLEAN : LifeNotStarted(u)
    /\ FleetNotStarted
    /\ last_call = NoCall
    /\ DiscoveryNotStarted

NextLifecycle ==
    \/ StartOperation /\ UNCHANGED <<drainVars, waitVars, fleetVars, last_call, discVars>>
    \/ Cordon /\ UNCHANGED <<drainVars, waitVars, fleetVars, last_call, discVars>>
    \/ Draining /\ ListPodsFailed /\ UNCHANGED <<waitVars, lifeVars, fleetVars, last_call, discVars>>
    \/ Draining /\ ListPods /\ UNCHANGED <<waitVars, lifeVars, fleetVars, last_call, discVars>>
    \/ Draining /\ Evict /\ UNCHANGED <<waitVars, lifeVars, fleetVars, last_call, discVars>>
    \/ Draining /\ DeleteInLoop /\ UNCHANGED <<waitVars, lifeVars, fleetVars, last_call, discVars>>
    \/ Draining /\ AfterLoop /\ UNCHANGED <<waitVars, lifeVars, fleetVars, last_call, discVars>>
    \/ Draining /\ DeleteAfterTimeout /\ UNCHANGED <<waitVars, lifeVars, fleetVars, last_call, discVars>>
    \/ Draining /\ ReturnResult /\ UNCHANGED <<waitVars, lifeVars, fleetVars, last_call, discVars>>
    \/ DrainFinished /\ UNCHANGED <<drainVars, waitVars, fleetVars, last_call, discVars>>
    \/ Reboot /\ UNCHANGED <<drainVars, waitVars, fleetVars, last_call, discVars>>
    \/ WaitingReady /\ WaitStart /\ UNCHANGED <<drainVars, lifeVars, fleetVars, last_call, discVars>>
    \/ WaitingReady /\ DisconnectProbe /\ UNCHANGED <<drainVars, lifeVars, fleetVars, last_call, discVars>>
    \/ WaitingReady /\ DisconnectExpired /\ UNCHANGED <<drainVars, lifeVars, fleetVars, last_call, discVars>>
    \/ WaitingReady /\ ReadyTimeout /\ UNCHANGED <<drainVars, lifeVars, fleetVars, last_call, discVars>>
    \/ WaitingReady /\ ReadyProbe /\ UNCHANGED <<drainVars, lifeVars, fleetVars, last_call, discVars>>
    \/ WaitFinished /\ UNCHANGED <<drainVars, waitVars, fleetVars, last_call, discVars>>
    \/ Uncordon /\ UNCHANGED <<drainVars, waitVars, fleetVars, last_call, discVars>>

SpecLifecycle == InitLifecycle /\ [][NextLifecycle]_vars

\* ------------------------------------------------------------------------
\* The rollout over the fleet
\* ------------------------------------------------------------------------

\* The i-th node of the cluster view: (hostname, address, is_controlplane).
NodeTuple(i) == <<"n" \o ToString(i), "10.0.0." \o ToString(i), i = 2>>

\* The node lists of Action::ShowRollingOperations: the first k nodes.
FleetInputs == {[i \in 1..k |-> NodeTuple(i)] : k \in 0..MaxFleet}

\* Mutant: workers are given a selection order, control planes are not.
RollingNodeInfoWorkersFirst(t) ==
    [hostname |-> t[1], address |-> t[2], is_controlplane |-> t[3],
     selection_order |-> IF t[3] THEN None ELSE Some(0)]

\* .map(|(hostname, address, is_controlplane)| RollingNodeInfo { hostname,
\*      address, is_controlplane, selection_order: None })
RollingNodeInfoOf(t) ==
    [hostname |-> t[1], address |-> t[2], is_controlplane |-> t[3],
     selection_order |-> None]

FailurePolicies == {"continue", "abort"}

\* Action::ShowRollingOperations(nodes): the tuples become RollingNodeInfo and
\* are handed to the component with set_nodes.
ShowRollingOperations ==
    /\ rollout_pc = "idle"
    /\ \E nodes \in FleetInputs, policy \in FailurePolicies :
         /\ fleet_input' = nodes
         /\ rollout_nodes' = [i \in DOMAIN nodes |-> RollingNodeInfoOf(nodes[i])]
         /\ failure_policy' = policy
    /\ rollout_pc' = "ready"
    /\ UNCHANGED <<visit_order, rollout_pos, node_steps, fleet_requests, outcomes,
                   rollout_status>>

\* The selection orders given out so far.
SelectedRanks ==
    {rollout_nodes[i].selection_order[1] :
        i \in {j \in DOMAIN rollout_nodes : rollout_nodes[j].selection_order # None}}

\* The operator selects a node: it gets the next selection order.
SelectNode ==
    /\ rollout_pc = "ready"
    /\ \E i \in DOMAIN rollout_nodes :
         /\ rollout_nodes[i].selection_order = None
         /\ rollout_nodes' =
              [rollout_nodes EXCEPT
                 ![i].selection_order = Some(Cardinality(SelectedRanks) + 1)]
    /\ UNCHANGED <<fleet_input, failure_policy, rollout_pc, visit_order, rollout_pos,
                   node_steps, fleet_requests, outcomes, rollout_status>>

\* Node a sorts strictly before node b: ascending selection order, the nodes
\* without one last.
GoesBefore(a, b) ==
    /\ a.selection_order # None
    /\ (b.selection_order = None \/ a.selection_order[1] < b.selection_order[1])

\* Stable insertion: n goes after every node that does not sort after it.
RECURSIVE InsertNode(_, _)
InsertNode(sorted, n) ==
    IF sorted = <<>> THEN <<n>>
    ELSE IF GoesBefore(n, Head(sorted)) THEN <<n>> \o sorted
    ELSE <<Head(sorted)>> \o InsertNode(Tail(sorted), n)

\* The execution order: a stable sort of the nodes by selection order.
RECURSIVE VisitOrder(_)
VisitOrder(nodes) ==
    IF nodes = <<>> THEN <<>>
    ELSE InsertNode(VisitOrder(SubSeq(nodes, 1, Len(nodes) - 1)), nodes[Len(nodes)])

Hostnames(nodes) == {nodes[i].hostname : i \in DOMAIN nodes}

\* The outcome of an untried node after an abort, and of a node that ran.
SkippedOutcome(n) == [hostname |-> n.hostname, outcome |-> "skipped"]
NodeOutcome(n, st) ==
    [hostname |-> n.hostname, outcome |-> IF st = "Failed" THEN "failed" ELSE "done"]

\* The rollout starts: the execution order is determined; an empty fleet is
\* complete at once.
RolloutStart ==
    /\ rollout_pc = "ready"
    /\ visit_order' = VisitOrder(rollout_nodes)
    /\ node_steps' = [h \in Hostnames(rollout_nodes) |-> "Idle"]
    /\ rollout_pos' = 1
    /\ IF rollout_nodes = <<>>
       THEN rollout_pc' = "returned" /\ rollout_status' = "Completed"
       ELSE rollout_pc' = "running" /\ rollout_status' = "InProgress"
    /\ UNCHANGED <<fleet_input, rollout_nodes, failure_policy, fleet_requests,
                   outcomes>>

ActiveSteps ==
    {"Cordoning", "Draining", "AwaitingExternalReboot", "WaitingReady", "Uncordoning"}

\* Mutant: a node may start while another one is still being operated on.
CanStartNodeEarly(i) == node_steps[visit_order[i].hostname] = "Idle"

\* The operation on the node at position i may start: it is the current node.
CanStartNode(i) ==
    i = rollout_pos /\ node_steps[visit_order[i].hostname] = "Idle"

\* The operation on a node starts: Idle -> Cordoning.
NodeStart ==
    /\ rollout_pc = "running"
    /\ \E i \in DOMAIN visit_order :
         /\ CanStartNode(i)
         /\ node_steps' = [node_steps EXCEPT ![visit_order[i].hostname] = "Cordoning"]
    /\ UNCHANGED <<fleet_input, rollout_nodes, failure_policy, rollout_pc, visit_order,
                   rollout_pos, fleet_requests, outcomes, rollout_status>>

\* The step that follows step st when it ended well, or not.
StepAfter(st, ok) ==
    IF st = "Uncordoning" THEN "Done"
    ELSE IF ~ok THEN "Failed"
    ELSE IF st = "Cordoning" THEN "Draining"
    ELSE IF st = "Draining" THEN "AwaitingExternalReboot"
    ELSE IF st = "AwaitingExternalReboot" THEN StepAfterReboot
    ELSE StepAfterReady

\* A node under operation takes its step (cordon, drain, reboot, wait,
\* uncordon), which ends well or not.
NodeStepIssued ==
    /\ rollout_pc = "running"
    /\ \E i \in DOMAIN visit_order, ok \in BOOLEAN :
         LET h == visit_order[i].hostname IN
         /\ node_steps[h] \in ActiveSteps
         /\ fleet_requests' =
              Append(fleet_requests, [node |-> h, op |-> node_steps[h], ok |-> ok])
         /\ node_steps' = [node_steps EXCEPT ![h] = StepAfter(node_steps[h], ok)]
    /\ UNCHANGED <<fleet_input, rollout_nodes, failure_policy, rollout_pc, visit_order,
                   rollout_pos, outcomes, rollout_status>>

\* Mutant: a failure aborts the rollout whatever the policy.
AbortsOnAnyPolicy(policy, st) == st = "Failed"

\* A node that ended in step st aborts the rollout.
AbortsOn(policy, st) == policy = "abort" /\ st = "Failed"

\* Mutant: the nodes after an abort are recorded as failed.
RemainingOutcomesFailed(from) ==
    [i \in 1..(Len(visit_order) - from + 1) |->
        [hostname |-> visit_order[from + i - 1].hostname, outcome |-> "failed"]]

\* The outcomes of the nodes from position `from` on, none of them tried.
RemainingOutcomes(from) ==
    [i \in 1..(Len(visit_order) - from + 1) |-> SkippedOutcome(visit_order[from + i - 1])]

\* Mutant: the status is not set when the last node has been recorded.
StatusAfterLastInProgress(aborted) ==
    IF aborted THEN "AbortedOnFailure" ELSE "InProgress"

\* The overall status of the run that is returned.
StatusAfterLast(aborted) == IF aborted THEN "AbortedOnFailure" ELSE "Completed"

\* The current node has ended: its outcome is recorded; the rollout moves to
\* the next node, or aborts, or returns the RolloutRun.
NodeFinished ==
    /\ rollout_pc = "running"
    /\ rollout_pos \in DOMAIN visit_order
    /\ LET n == visit_order[rollout_pos]
           st == node_steps[n.hostname]
       IN  /\ st \in {"Done", "Failed"}
           /\ IF AbortsOn(failure_policy, st)
              THEN /\ outcomes' = Append(outcomes, NodeOutcome(n, st))
                                    \o RemainingOutcomes(rollout_pos + 1)
                   /\ rollout_status' = StatusAfterLast(TRUE)
                   /\ rollout_pc' = "returned"
                   /\ UNCHANGED rollout_pos
              ELSE /\ outcomes' = Append(outcomes, NodeOutcome(n, st))
                   /\ IF rollout_pos = Len(visit_order)
                      THEN /\ rollout_status' = StatusAfterLast(FALSE)
                           /\ rollout_pc' = "returned"
                           /\ UNCHANGED rollout_pos
                      ELSE /\ rollout_pos' = rollout_pos + 1
                           /\ UNCHANGED <<rollout_status, rollout_pc>>
    /\ UNCHANGED <<fleet_input, rollout_nodes, failure_policy, visit_order, node_steps,
                   fleet_requests>>

\* The options applied to every node of a rollout: the defaults, or neither
\* waiting for the node nor uncordoning it.
FleetOptionsSet ==
    {DefaultDrainOptions,
     [DefaultDrainOptions EXCEPT !.wait_for_node_ready = FALSE,
                                 !.uncordon_after_reboot = FALSE]}

InitRollout ==
    /\ options \in FleetOptionsSet
    /\ drain_callback = "none"
    /\ pod_list = <<>>
    /\ DrainNotStarted
    /\ WaitNotStarted(options.post_reboot_timeout_secs, FALSE, FALSE)
    /\ LifeNotStarted(FALSE)
    /\ FleetNotStarted
    /\ last_call = NoCall
    /\ DiscoveryNotStarted

NextRollout ==
    \/ ShowRollingOperations /\ UNCHANGED <<drainVars, waitVars, lifeVars, last_call, discVars>>
    \/ SelectNode /\ UNCHANGED <<drainVars, waitVars, lifeVars, last_call, discVars>>
    \/ RolloutStart /\ UNCHANGED <<drainVars, waitVars, lifeVars, last_call, discVars>>
    \/ NodeStart /\ UNCHANGED <<drainVars, waitVars, lifeVars, last_call, discVars>>
    \/ NodeStepIssued /\ UNCHANGED <<drainVars, waitVars, lifeVars, last_call, discVars>>
    \/ NodeFinished /\ UNCHANGED <<drainVars, waitVars, lifeVars, last_call, discVars>>

SpecRollout == InitRollout /\ [][NextRollout]_vars

\* Every step of a rollout is eventually taken: each call returns.
SpecRolloutFair == SpecRollout /\ WF_vars(NextRollout)

\* ------------------------------------------------------------------------
\* The read-only probes: check_pdb_health, get_node_ready_status,
\* node_exists, check_pod_health
\* ------------------------------------------------------------------------

\* Result<T, K8sError>
Ok(v) == [ok |-> TRUE, value |-> v]
Err(e) == [ok |-> FALSE, error |-> e]

\* e.to_string() of a kube error.
ErrorString(r) == "ApiError: " \o ToString(r.code)

\* K8sError::ApiError(msg)
ApiError(msg) == [variant |-> "ApiError", message |-> msg]

\* Failures of a list or get.
ApiFailures == {ErrNotFound, ErrInternal, ErrForbidden}

\* What a list answers: the items, or a failure.
ListOk(items) == [ok |-> TRUE, items |-> items]

\* What a get answers: the object, or a failure.
GetOk(obj) == [ok |-> TRUE, object |-> obj]

\* Option<String>::unwrap_or_default(), Option<i32>.unwrap_or(0)
UnwrapOr(opt, default) == IF opt = None THEN default ELSE opt[1]

\* PodDisruptionBudgetStatus, the four counts the function reads.
PdbStatus(current, desired, allowed, expected) ==
    [current_healthy |-> current, desired_healthy |-> desired,
     disruptions_allowed |-> allowed, expected_pods |-> expected]

\* A budget that has no status yet, and budgets whose controller has written
\* one: guarding one or two pods with and without room for a disruption,
\* selecting no pod, and a count below zero, which an i32 can hold.
PdbStatusChoices ==
    {None,
     Some(PdbStatus(1, 1, 0, 1)),
     Some(PdbStatus(2, 1, 1, 2)),
     Some(PdbStatus(1, 2, 0, 2)),
     Some(PdbStatus(0, 0, 0, 0)),
     Some(PdbStatus(0, 0, 1, 0)),
     Some(PdbStatus(0, 0, 0, -1))}

\* The i-th PodDisruptionBudget of a listing.
PodDisruptionBudget(i, status) ==
    [metadata |-> [name |-> Some("pdb" \o ToString(i)), namespace |-> Some("default")],
     status |-> status]

PdbListings ==
    UNION {{[i \in 1..k |-> PodDisruptionBudget(i, s[i])] : s \in [1..k -> PdbStatusChoices]}
           : k \in 0..MaxPdbs}

\* Mutant: every budget without room for a disruption blocks.
WouldBlockDrainIgnoringPods(disruptions_allowed, expected_pods) == disruptions_allowed = 0

\* disruptions_allowed == 0 && expected_pods > 0
WouldBlockDrain(disruptions_allowed, expected_pods) ==
    disruptions_allowed = 0 /\ expected_pods > 0

\* The PdbInfo of one listed budget.
PdbInfo(pdb) ==
    LET status == pdb.status
        current_healthy == IF status = None THEN 0 ELSE status[1].current_healthy
        desired_healthy == IF status = None THEN 0 ELSE status[1].desired_healthy
        disruptions_allowed == IF status = None THEN 0 ELSE status[1].disruptions_allowed
        expected_pods == IF status = None THEN 0 ELSE status[1].expected_pods
    IN [name |-> UnwrapOr(pdb.metadata.name, ""),
        namespace |-> UnwrapOr(pdb.metadata.namespace, ""),
        current_healthy |-> current_healthy,
        desired_healthy |-> desired_healthy,
        disruptions_allowed |-> disruptions_allowed,
        expected_pods |-> expected_pods,
        would_block_drain |-> WouldBlockDrain(disruptions_allowed, expected_pods)]

\* PdbHealthInfo::default()
PdbHealthInfoDefault == [pdbs |-> <<>>, blocking_pdbs |-> <<>>]

\* for pdb in pdb_list.items { .. }
RECURSIVE PdbLoop(_, _)
PdbLoop(items, info) ==
    IF items = <<>> THEN info
    ELSE LET pdb_info == PdbInfo(Head(items))
         IN PdbLoop(Tail(items),
                    [pdbs |-> Append(info.pdbs, pdb_info),
                     blocking_pdbs |-> IF pdb_info.would_block_drain
                                       THEN Append(info.blocking_pdbs, pdb_info)
                                       ELSE info.blocking_pdbs])

\* check_pdb_health, given what pdbs.list answers.
check_pdb_health(pdb_list) ==
    IF ~pdb_list.ok THEN Err(ApiError(ErrorString(pdb_list)))
    ELSE Ok(PdbLoop(pdb_list.items, PdbHealthInfoDefault))

\* A call: the function, what the API answered, what the function returned.
Call(fn, input, output) == [fn |-> fn, input |-> input, output |-> output]

CheckPdbHealth ==
    /\ last_call = NoCall
    /\ \E pdb_list \in {ListOk(l) : l \in PdbListings} \cup ApiFailures :
           last_call' = Call("check_pdb_health", pdb_list, check_pdb_health(pdb_list))

\* NodeCondition: type_ and status.
NodeCondition(type_, status) == [type_ |-> type_, status |-> status]

\* The Ready condition and one other; the three statuses the API defines and
\* one it does not.
ConditionChoices ==
    {NodeCondition(t, s) : t \in {"Ready", "MemoryPressure"},
                           s \in {"True", "False", "Unknown", "true"}}

ConditionLists ==
    UNION {[1..k -> ConditionChoices] : k \in 0..MaxConditions}

\* A Node: no status, a status without conditions, or a list of conditions.
Nodes ==
    {[status |-> None], [status |-> Some([conditions |-> None])]}
    \cup {[status |-> Some([conditions |-> Some(c)])] : c \in ConditionLists}

\* node.status.as_ref().and_then(|s| s.conditions.as_ref())
NodeConditions(node) ==
    IF node.status = None THEN None ELSE node.status[1].conditions

\* Mutant: every status other than "True" is NotReady.
ConditionStatusNotTrueIsNotReady(status) ==
    IF status = "True" THEN "Ready" ELSE "NotReady"

\* match condition.status.as_str()
ConditionStatus(status) ==
    CASE status = "True" -> "Ready"
      [] status = "False" -> "NotReady"
      [] OTHER -> "Unknown"

\* for condition in conditions { if condition.type_ == "Ready" { return .. } }
RECURSIVE ReadyLoop(_)
ReadyLoop(conditions) ==
    IF conditions = <<>> THEN "Unknown"
    ELSE IF Head(conditions).type_ = "Ready" THEN ConditionStatus(Head(conditions).status)
    ELSE ReadyLoop(Tail(conditions))

\* get_node_ready_status, given what nodes.get answers.
get_node_ready_status(got) ==
    IF ~got.ok THEN Err(ApiError("Failed to get node: " \o ErrorString(got)))
    ELSE LET conditions == NodeConditions(got.object)
         IN IF conditions # None THEN Ok(ReadyLoop(conditions[1])) ELSE Ok("Unknown")

\* What nodes.get answers.
NodeGets == {GetOk(n) : n \in Nodes} \cup ApiFailures

GetNodeReadyStatus ==
    /\ last_call = NoCall
    /\ \E got \in NodeGets :
           last_call' = Call("get_node_ready_status", got, get_node_ready_status(got))

\* nodes.get(node_name).await.is_ok()
node_exists(got) == got.ok

NodeExists ==
    /\ last_call = NoCall
    /\ \E got \in NodeGets :
           last_call' = Call("node_exists", got, node_exists(got))

\* ContainerStatus: running, or waiting for a reason; the restarts so far and
\* the reason the container last terminated.
RunningContainer ==
    [state |-> Some([waiting |-> None]), restart_count |-> 0, last_state |-> None]
WaitingContainer(reason, restarts, last) ==
    [state |-> Some([waiting |-> Some([reason |-> reason])]),
     restart_count |-> restarts,
     last_state |-> IF last = None THEN None
                    ELSE Some([terminated |-> Some([reason |-> last])])]

\* PodStatus: phase, conditions, container_statuses.
PodStatus(phase, conditions, container_statuses) ==
    [phase |-> phase, conditions |-> conditions, container_statuses |-> container_statuses]

\* A pod without status; a running pod; pods whose containers wait for the
\* three reasons the function looks for and for another; pods pending with and
\* without conditions, with no container list and with an empty one.
PodStatusChoices ==
    {None,
     Some(PodStatus(Some("Running"), Some(<<"Ready">>), Some(<<RunningContainer>>))),
     Some(PodStatus(Some("Running"), Some(<<"Ready">>),
                    Some(<<WaitingContainer(Some("CrashLoopBackOff"), 5, Some("Error"))>>))),
     Some(PodStatus(Some("Pending"), Some(<<"PodScheduled">>),
                    Some(<<WaitingContainer(Some("ErrImagePull"), 0, None)>>))),
     Some(PodStatus(Some("Running"), Some(<<"Ready">>),
                    Some(<<WaitingContainer(Some("ImagePullBackOff"), 0, None),
                           WaitingContainer(Some("CrashLoopBackOff"), 2, None)>>))),
     Some(PodStatus(Some("Pending"), Some(<<"PodScheduled">>),
                    Some(<<WaitingContainer(Some("ContainerCreating"), 0, None)>>))),
     Some(PodStatus(Some("Pending"), Some(<<"PodScheduled">>), None)),
     Some(PodStatus(Some("Pending"), Some(<<"PodScheduled">>), Some(<<>>))),
     Some(PodStatus(Some("Pending"), None, None))}

\* The i-th Pod of a cluster-wide listing.
HealthPod(i, status) ==
    [metadata |-> [name |-> Some("pod" \o ToString(i)), namespace |-> Some("default")],
     status |-> status]

HealthPodListings ==
    UNION {{[i \in 1..k |-> HealthPod(i, s[i])] : s \in [1..k -> PodStatusChoices]}
           : k \in 0..MaxHealthPods}

UnhealthyPodInfo(name, namespace, state, restart_count, last_reason) ==
    [name |-> name, namespace |-> namespace, state |-> state,
     restart_count |-> restart_count, last_reason |-> last_reason]

\* cs.state.as_ref().and_then(|s| s.waiting.as_ref())
ContainerWaiting(cs) == IF cs.state = None THEN None ELSE cs.state[1].waiting

\* cs.last_state.as_ref().and_then(|s| s.terminated.as_ref())
\*     .and_then(|t| t.reason.clone())
LastReason(cs) ==
    IF cs.last_state = None THEN None
    ELSE IF cs.last_state[1].terminated = None THEN None
    ELSE cs.last_state[1].terminated[1].reason

\* for cs in container_statuses { .. }
RECURSIVE ContainerLoop(_, _, _, _)
ContainerLoop(statuses, name, namespace, info) ==
    IF statuses = <<>> THEN info
    ELSE LET cs == Head(statuses)
             waiting == ContainerWaiting(cs)
             reason == UnwrapOr(waiting[1].reason, "")
             unhealthy == UnhealthyPodInfo(name, namespace, reason, cs.restart_count,
                                           LastReason(cs))
             next == IF waiting = None THEN info
                     ELSE IF reason = "CrashLoopBackOff"
                          THEN [info EXCEPT !.crashing = Append(@, unhealthy)]
                     ELSE IF reason \in {"ImagePullBackOff", "ErrImagePull"}
                          THEN [info EXCEPT !.image_pull_errors = Append(@, unhealthy)]
                     ELSE info
         IN ContainerLoop(Tail(statuses), name, namespace, next)

\* status.and_then(|s| s.container_statuses.as_ref())
ContainerStatuses(pod) ==
    IF pod.status = None THEN None ELSE pod.status[1].container_statuses

\* status.and_then(|s| s.phase.clone()).unwrap_or_default()
Phase(pod) == IF pod.status = None THEN "" ELSE UnwrapOr(pod.status[1].phase, "")

\* has_conditions && no_containers
StuckPending(pod) ==
    LET has_conditions == IF pod.status = None THEN FALSE
                          ELSE IF pod.status[1].conditions = None THEN FALSE
                          ELSE pod.status[1].conditions[1] # <<>>
        no_containers == IF ContainerStatuses(pod) = None THEN TRUE
                         ELSE ContainerStatuses(pod)[1] = <<>>
    IN has_conditions /\ no_containers

\* for pod in pod_list.items { .. }
RECURSIVE PodHealthLoop(_, _)
PodHealthLoop(items, info) ==
    IF items = <<>> THEN info
    ELSE LET pod == Head(items)
             name == UnwrapOr(pod.metadata.name, "")
             namespace == UnwrapOr(pod.metadata.namespace, "")
             waited == IF ContainerStatuses(pod) # None
                       THEN ContainerLoop(ContainerStatuses(pod)[1], name, namespace, info)
                       ELSE info
             next == IF Phase(pod) = "Pending" /\ StuckPending(pod)
                     THEN [waited EXCEPT !.pending =
                               Append(@, UnhealthyPodInfo(name, namespace, "Pending", 0, None))]
                     ELSE waited
         IN PodHealthLoop(Tail(items), next)

\* PodHealthInfo { total_pods: pod_list.items.len(), ..Default::default() }
PodHealthInfo(total) ==
    [crashing |-> <<>>, image_pull_errors |-> <<>>, pending |-> <<>>, total_pods |-> total]

\* Mutant: a failed listing is reported as a cluster without pods.
check_pod_health_swallowing(pod_list_) ==
    IF ~pod_list_.ok THEN Ok(PodHealthInfo(0))
    ELSE Ok(PodHealthLoop(pod_list_.items, PodHealthInfo(Len(pod_list_.items))))

\* check_pod_health, given what pods.list answers.
check_pod_health(pod_list_) ==
    IF ~pod_list_.ok THEN Err(ApiError(ErrorString(pod_list_)))
    ELSE Ok(PodHealthLoop(pod_list_.items, PodHealthInfo(Len(pod_list_.items))))

CheckPodHealth ==
    /\ last_call = NoCall
    /\ \E listed \in {ListOk(l) : l \in HealthPodListings} \cup ApiFailures :
           last_call' = Call("check_pod_health", listed, check_pod_health(listed))

\* No operation has begun. The four reads keep no state between calls, so a
\* behaviour is one call of one of them against one answer of the API.
InitProbe ==
    /\ options = DefaultDrainOptions
    /\ drain_callback = "none"
    /\ pod_list = <<>>
    /\ DrainNotStarted
    /\ WaitNotStarted(options.post_reboot_timeout_secs, FALSE, FALSE)
    /\ LifeNotStarted(FALSE)
    /\ FleetNotStarted
    /\ last_call = NoCall
    /\ DiscoveryNotStarted

NextProbe ==
    \/ CheckPdbHealth /\ UNCHANGED <<drainVars, waitVars, lifeVars, fleetVars, discVars>>
    \/ GetNodeReadyStatus /\ UNCHANGED <<drainVars, waitVars, lifeVars, fleetVars, discVars>>
    \/ NodeExists /\ UNCHANGED <<drainVars, waitVars, lifeVars, fleetVars, discVars>>
    \/ CheckPodHealth /\ UNCHANGED <<drainVars, waitVars, lifeVars, fleetVars, discVars>>

SpecProbe == InitProbe /\ [][NextProbe]_vars

\* ------------------------------------------------------------------------
\* cordon_node and uncordon_node called on their own
\* ------------------------------------------------------------------------

\* json!({"spec": {"unschedulable": true}})
CordonPatch == [spec |-> [unschedulable |-> TRUE]]

\* Mutant: uncordon_node sends the patch of cordon_node.
UncordonPatchCordons == [spec |-> [unschedulable |-> TRUE]]

\* json!({"spec": {"unschedulable": false}})
UncordonPatch == [spec |-> [unschedulable |-> FALSE]]

\* cordon_node: one merge patch of the node, its answer turned into a
\* CordonResult.
CordonNode ==
    /\ Len(node_requests) < MaxCalls
    /\ \E r \in PatchResponses :
         /\ PatchUnschedulable("cordon", CordonPatch.spec.unschedulable, r)
         /\ last_call' = Call("cordon_node", r, Ok(CordonResult(r)))
    /\ UNCHANGED <<life_pc, life_history, life_error>>

\* uncordon_node: the same with unschedulable false.
UncordonNode ==
    /\ Len(node_requests) < MaxCalls
    /\ \E r \in PatchResponses :
         /\ PatchUnschedulable("uncordon", UncordonPatch.spec.unschedulable, r)
         /\ last_call' = Call("uncordon_node", r, Ok(CordonResult(r)))
    /\ UNCHANGED <<life_pc, life_history, life_error>>

\* The node is schedulable or cordoned; the two functions are called in any
\* order.
InitCordon ==
    /\ options = DefaultDrainOptions
    /\ drain_callback = "none"
    /\ pod_list = <<>>
    /\ DrainNotStarted
    /\ WaitNotStarted(options.post_reboot_timeout_secs, FALSE, FALSE)
    /\ \E u \in BOOLEAN : LifeNotStarted(u)
    /\ FleetNotStarted
    /\ last_call = NoCall
    /\ DiscoveryNotStarted

NextCordon ==
    \/ CordonNode /\ UNCHANGED <<drainVars, waitVars, fleetVars, discVars>>
    \/ UncordonNode /\ UNCHANGED <<drainVars, waitVars, fleetVars, discVars>>

SpecCordon == InitCordon /\ [][NextCordon]_vars

\* ------------------------------------------------------------------------
\* get_discovery_members_with_retry
\* ------------------------------------------------------------------------

\* Addresses of control plane nodes; a fallback list may name one twice.
FallbackIps == {"10.0.0.2", "10.0.0.3"}
FallbackLists == UNION {[1..k -> FallbackIps] : k \in 0..MaxFallback}

\* What a fetch of the members returns: Ok(Vec<DiscoveryMember>) or
\* Err(TalosError).
MemberLists == {<<>>, <<"cp-1", "worker-1">>}
TalosErrors == {"no request forwarding", "connection refused"}
FetchResults == {Ok(m) : m \in MemberLists} \cup {Err(e) : e \in TalosErrors}

\* A fetch: whom it was sent to ("vip" for the context endpoint), what it
\* returned, the sleep that followed it.
Fetch(target, r, ms) == [target |-> target, resp |-> r, slept |-> ms]

\* Mutant: the range of the VIP loop excludes its upper end.
VipLoopRunsExclusive(a) == a < VIP_MAX_RETRIES

\* for attempt in 0..=VIP_MAX_RETRIES
VipLoopRuns(a) == a <= VIP_MAX_RETRIES

\* if attempt < VIP_MAX_RETRIES { sleep(BASE_DELAY_MS * (1 << attempt)) }
RetryDelayMs(a) == IF a < VIP_MAX_RETRIES THEN BASE_DELAY_MS * (2 ^ a) ELSE 0

\* fastrand::shuffle: the orders the list can be put in.
Shuffles(list) ==
    {s \in [DOMAIN list -> {list[i] : i \in DOMAIN list}] :
        \E f \in [DOMAIN list -> DOMAIN list] :
            /\ \A i, j \in DOMAIN list : f[i] = f[j] => i = j
            /\ \A i \in DOMAIN list : s[i] = list[f[i]]}

\* One turn of the VIP loop: get_discovery_members_for_context; Ok returns,
\* Err is kept in last_error and, unless it was the last turn, slept on.
VipAttempt ==
    /\ disc_pc = "vip"
    /\ VipLoopRuns(attempt)
    /\ \E r \in FetchResults :
         IF r.ok
         THEN /\ disc_trace' = Append(disc_trace, Fetch("vip", r, 0))
              /\ disc_result' = Ok(r.value)
              /\ disc_pc' = "done"
              /\ UNCHANGED <<attempt, last_error>>
         ELSE /\ disc_trace' = Append(disc_trace, Fetch("vip", r, RetryDelayMs(attempt)))
              /\ last_error' = <<r.error>>
              /\ attempt' = attempt + 1
              /\ UNCHANGED <<disc_pc, disc_result>>
    /\ UNCHANGED <<fallback_node_ips, shuffled_ips>>

\* The VIP loop is over: if !fallback_node_ips.is_empty() the addresses are
\* shuffled and tried in turn, else the function goes to its last line.
VipFailed ==
    /\ disc_pc = "vip"
    /\ ~VipLoopRuns(attempt)
    /\ shuffled_ips' \in Shuffles(fallback_node_ips)
    /\ disc_pc' = "fallback"
    /\ UNCHANGED <<fallback_node_ips, attempt, last_error, disc_trace, disc_result>>

\* for node_ip in shuffled_ips: get_discovery_members_for_node_async; Ok
\* returns, Err is kept in last_error.
FallbackAttempt ==
    /\ disc_pc = "fallback"
    /\ shuffled_ips # <<>>
    /\ \E r \in FetchResults :
         /\ disc_trace' = Append(disc_trace, Fetch(Head(shuffled_ips), r, 0))
         /\ IF r.ok
            THEN /\ disc_result' = Ok(r.value)
                 /\ disc_pc' = "done"
                 /\ UNCHANGED last_error
            ELSE /\ last_error' = <<r.error>>
                 /\ UNCHANGED <<disc_pc, disc_result>>
    /\ shuffled_ips' = Tail(shuffled_ips)
    /\ UNCHANGED <<fallback_node_ips, attempt>>

\* Err(last_error.unwrap_or_else(|| TalosError::NoEndpoints(..)))
ReturnLastError ==
    /\ disc_pc = "fallback"
    /\ shuffled_ips = <<>>
    /\ disc_result' = Err(IF last_error = None THEN "NoEndpoints" ELSE last_error[1])
    /\ disc_pc' = "done"
    /\ UNCHANGED <<fallback_node_ips, attempt, shuffled_ips, last_error, disc_trace>>

\* get_discovery_members_with_retry called with any fallback list.
InitDiscovery ==
    /\ options = DefaultDrainOptions
    /\ drain_callback = "none"
    /\ pod_list = <<>>
    /\ DrainNotStarted
    /\ WaitNotStarted(options.post_reboot_timeout_secs, FALSE, FALSE)
    /\ LifeNotStarted(FALSE)
    /\ FleetNotStarted
    /\ last_call = NoCall
    /\ fallback_node_ips \in FallbackLists
    /\ disc_pc = "vip"
    /\ attempt = 0
    /\ shuffled_ips = <<>>
    /\ last_error = None
    /\ disc_trace = <<>>
    /\ disc_result = NoResult

NextDiscovery ==
    \/ VipAttempt /\ UNCHANGED <<drainVars, waitVars, lifeVars, fleetVars, last_call>>
    \/ VipFailed /\ UNCHANGED <<drainVars, waitVars, lifeVars, fleetVars, last_call>>
    \/ FallbackAttempt /\ UNCHANGED <<drainVars, waitVars, lifeVars, fleetVars, last_call>>
    \/ ReturnLastError /\ UNCHANGED <<drainVars, waitVars, lifeVars, fleetVars, last_call>>

SpecDiscovery == InitDiscovery /\ [][NextDiscovery]_vars

\* ------------------------------------------------------------------------
\* Reading the trace
\* ------------------------------------------------------------------------

IsRequest(e) == e.op \in {"evict", "delete"}

\* The listed pods with the key k.
ListedAs(k) == {pod_list[i] : i \in {j \in DOMAIN pod_list : PodKey(pod_list[j]) = k}}

\* The keys of the candidates, and the position of a key among them.
CandidateKeys == {PodKey(pods_to_evict[q]) : q \in DOMAIN pods_to_evict}
PosOf(k) == CHOOSE q \in DOMAIN pods_to_evict : PodKey(pods_to_evict[q]) = k

\* The pod at position q has been left behind by the for loop.
Finished(q) == q < idx

InSeq(x, seq) == \E i \in DOMAIN seq : seq[i] = x
Count(x, seq) == Cardinality({i \in DOMAIN seq : seq[i] = x})

\* The responses the evict requests for key k got, in order.
EvictResponsesOf(k) ==
    LET ev == SelectSeq(trace, LAMBDA e : e.op = "evict" /\ e.pod = k)
    IN [i \in DOMAIN ev |-> ev[i].resp]
DeletesOf(k) == SelectSeq(trace, LAMBDA e : e.op = "delete" /\ e.pod = k)

\* How the drain loop is to read a response (k8s.rs:771-829).
RespEvicted(r)  == r.ok
RespNotFound(r) == ~r.ok /\ ("404" \in r.text \/ "not found" \in r.text)
RespPdb(r)      == /\ ~r.ok /\ ~RespNotFound(r)
                   /\ r.text \cap {"429", "disruption budget", "PodDisruptionBudget",
                                   "Cannot evict"} # {}
RespOther(r)    == ~r.ok /\ ~RespNotFound(r) /\ ~RespPdb(r)

Returned == pc = "done" /\ result.kind = "ok"

\* ------------------------------------------------------------------------
\* Claims
\* ------------------------------------------------------------------------

\* C1: whenever drain returns a DrainResult, success is true if and only if
\* failed_pods is empty.
C1_SuccessIffNoFailedPods ==
    result.kind = "ok" => (result.success <=> Len(result.failed_pods) = 0)

\* A drain that returned with one pod evicted and another failed.
C1_Witness ==
    /\ Returned
    /\ ~result.success
    /\ Len(result.failed_pods) = 1
    /\ result.pods_evicted = 1

\* C2: a delete request is issued only with force_delete_unmanaged on and for
\* a pod with no ReplicaSet/Deployment/StatefulSet/Job/DaemonSet owner; with
\* the flag off, an unmanaged pod whose eviction failed (another error, or
\* PDB-blocked through all attempts) is in failed_pods, not in
\* force_deleted_pods, and the result has success = false.
C2_ForceDeleteOnlyUnmanagedWithFlag ==
    /\ \A i \in DOMAIN trace :
         trace[i].op = "delete" =>
           /\ options.force_delete_unmanaged
           /\ \A p \in ListedAs(trace[i].pod) : p.owner_kinds \cap ManagedKinds = {}
    /\ (Returned /\ ~options.force_delete_unmanaged) =>
         \A k \in CandidateKeys :
           LET rs == EvictResponsesOf(k)
               failedEvict ==
                 /\ rs # <<>>
                 /\ \/ RespOther(rs[Len(rs)])
                    \/ /\ \A i \in DOMAIN rs : RespPdb(rs[i])
                       /\ Len(rs) = max_attempts
           IN  (failedEvict /\ \A p \in ListedAs(k) : p.owner_kinds \cap ManagedKinds = {}) =>
                 /\ InSeq(k, result.failed_pods)
                 /\ ~InSeq(k, result.force_deleted_pods)
                 /\ DeletesOf(k) = <<>>
                 /\ result.success = FALSE

\* Node w1 of the scenario with the flag off: pod-C is PDB-blocked through all
\* attempts and ends in failed_pods.
C2_Witness ==
    /\ Returned
    /\ pod_list = ScenarioW1
    /\ ~options.force_delete_unmanaged
    /\ max_attempts > 1
    /\ Len(EvictResponsesOf("ns/pod-C")) = max_attempts
    /\ \A i \in DOMAIN EvictResponsesOf("ns/pod-C") : RespPdb(EvictResponsesOf("ns/pod-C")[i])
    /\ result.failed_pods = <<"ns/pod-C">>
    /\ result.success = FALSE

\* C3: with ignore_daemonsets on, no evict and no delete request is issued
\* for a listed pod that has a DaemonSet owner reference.
C3_DaemonSetPodsUntouched ==
    options.ignore_daemonsets =>
      \A i \in DOMAIN trace :
        IsRequest(trace[i]) =>
          \A p \in ListedAs(trace[i].pod) : "DaemonSet" \notin p.owner_kinds

\* A DaemonSet pod was listed next to a pod that did get requests.
C3_Witness ==
    /\ Returned
    /\ options.ignore_daemonsets
    /\ options.delete_emptydir_data
    /\ InSeq(DaemonPodA, pod_list)
    /\ \E i \in DOMAIN trace : trace[i].op = "delete"

\* C4: with delete_emptydir_data off, no evict and no delete request is
\* issued for a listed pod that has an emptyDir volume.
C4_EmptyDirPodsUntouched ==
    ~options.delete_emptydir_data =>
      \A i \in DOMAIN trace :
        IsRequest(trace[i]) =>
          \A p \in ListedAs(trace[i].pod) : "emptyDir" \notin p.volumes

\* A pod with an emptyDir volume was listed next to a pod that did get requests.
C4_Witness ==
    /\ Returned
    /\ ~options.delete_emptydir_data
    /\ options.ignore_daemonsets = FALSE
    /\ InSeq(DaemonPodA, pod_list)
    /\ \E i \in DOMAIN trace : trace[i].op = "evict"

\* The number of pods the trace shows as removed: an eviction answered Ok or
\* not found, or a delete answered Ok.
RemovedInTrace ==
    Cardinality({i \in DOMAIN trace :
        \/ trace[i].op = "evict" /\ (RespEvicted(trace[i].resp) \/ RespNotFound(trace[i].resp))
        \/ trace[i].op = "delete" /\ trace[i].resp.ok})

\* C5: a not-found response to an eviction request counts the pod towards
\* pods_evicted; the pod is not in failed_pods, is not force-deleted and gets
\* no further request, however many PDB-blocked attempts went before.
C5_NotFoundCountsAsEvicted ==
    /\ evicted = RemovedInTrace
    /\ \A i \in DOMAIN trace :
         (trace[i].op = "evict" /\ RespNotFound(trace[i].resp)) =>
           /\ ~InSeq(trace[i].pod, failed_pods)
           /\ ~InSeq(trace[i].pod, force_deleted_pods)
           /\ \A j \in DOMAIN trace :
                (j > i /\ IsRequest(trace[j])) => trace[j].pod # trace[i].pod
    /\ Returned => result.pods_evicted = RemovedInTrace

\* A pod was PDB-blocked, then answered not found (by a text that also holds
\* "429"), and the drain returned counting it.
C5_Witness ==
    /\ Returned
    /\ \E i \in DOMAIN trace :
         /\ trace[i].op = "evict" /\ trace[i].resp = ErrNotFound
         /\ \E j \in 1..(i - 1) :
              /\ trace[j].op = "evict" /\ trace[j].pod = trace[i].pod
              /\ RespPdb(trace[j].resp)
    /\ result.pods_evicted = total_pods
    /\ total_pods > 0

\* C6: a pod whose eviction requests are all answered PDB-blocked gets exactly
\* max_attempts of them, each followed by the 2 s backoff; no delete is sent
\* and no failure recorded before the last of them; after it the pod is
\* force-deleted if force_delete_unmanaged and the pod is unmanaged, and is
\* otherwise recorded in failed_pods.
C6_PdbBlockedUsesWholeBudget ==
    \A q \in DOMAIN pods_to_evict :
      LET k  == PodKey(pods_to_evict[q])
          rs == EvictResponsesOf(k)
          ds == DeletesOf(k)
          unmanaged == \A p \in ListedAs(k) : p.owner_kinds \cap ManagedKinds = {}
      IN  (rs # <<>> /\ \A i \in DOMAIN rs : RespPdb(rs[i])) =>
            /\ Len(rs) <= max_attempts
            /\ \A i \in DOMAIN trace :
                 (trace[i].op = "evict" /\ trace[i].pod = k) =>
                   trace[i].slept = PdbBackoffMs
            /\ Len(rs) < max_attempts =>
                 /\ ds = <<>>
                 /\ ~InSeq(k, failed_pods)
                 /\ ~Finished(q)
            /\ Finished(q) =>
                 /\ Len(rs) = max_attempts
                 /\ IF options.force_delete_unmanaged /\ unmanaged
                    THEN /\ Len(ds) = 1
                         /\ ds[1].resp.ok => InSeq(k, force_deleted_pods) /\ ~InSeq(k, failed_pods)
                         /\ ~ds[1].resp.ok => InSeq(k, failed_pods) /\ ~InSeq(k, force_deleted_pods)
                    ELSE /\ ds = <<>>
                         /\ InSeq(k, failed_pods)
                         /\ ~InSeq(k, force_deleted_pods)

\* A pod went through more than one PDB-blocked attempt and was then
\* force-deleted.
C6_Witness ==
    /\ Returned
    /\ max_attempts > 1
    /\ \E q \in DOMAIN pods_to_evict :
         LET k == PodKey(pods_to_evict[q])
         IN  /\ Len(EvictResponsesOf(k)) = max_attempts
             /\ \A i \in DOMAIN EvictResponsesOf(k) : RespPdb(EvictResponsesOf(k)[i])
             /\ Len(DeletesOf(k)) = 1

\* C7: max_attempts is per_pod_timeout_secs / 2 (integer division) and at
\* least 1: 30 gives 15, 1 gives 1, 0 gives 1; so every candidate the loop is
\* done with got at least one eviction request.
C7_MaxAttemptsFloorOne ==
    /\ MaxAttempts(30) = 15
    /\ MaxAttempts(1) = 1
    /\ MaxAttempts(0) = 1
    /\ \A t \in 0..MaxTimeoutSecs :
         /\ MaxAttempts(t) >= 1
         /\ t < 2 => MaxAttempts(t) = 1
         /\ t >= 2 => 2 * MaxAttempts(t) <= t /\ t < 2 * MaxAttempts(t) + 2
    /\ pc \notin {"start", "error"} =>
         LET t == options.per_pod_timeout_secs
         IN  /\ max_attempts >= 1
             /\ t < 2 => max_attempts = 1
             /\ t >= 2 => 2 * max_attempts <= t /\ t < 2 * max_attempts + 2
             /\ \A q \in DOMAIN pods_to_evict :
                  Finished(q) => Len(EvictResponsesOf(PodKey(pods_to_evict[q]))) >= 1

\* A drain with per_pod_timeout_secs = 0 that sent one eviction request per
\* candidate.
C7_Witness ==
    /\ Returned
    /\ options.per_pod_timeout_secs = 0
    /\ max_attempts = 1
    /\ total_pods > 1
    /\ \A k \in CandidateKeys : Len(EvictResponsesOf(k)) = 1

\* C8: a pod whose force-delete succeeds is counted in pods_evicted, listed in
\* force_deleted_pods as "namespace/name" and not in failed_pods; on node w1
\* (DaemonSet pod skipped, Deployment pod evicted at the first attempt, bare
\* pod PDB-blocked through all attempts, force_delete_unmanaged on, delete
\* answered Ok) the result is success, 2 evicted, none failed, pod-C
\* force-deleted.
C8_ForceDeletedCountsAsEvicted ==
    /\ evicted = RemovedInTrace
    /\ \A i \in DOMAIN trace :
         (trace[i].op = "delete" /\ trace[i].resp.ok) =>
           /\ \E p \in ListedAs(trace[i].pod) :
                Count(p.namespace \o "/" \o p.name, force_deleted_pods) = 1
           /\ ~InSeq(trace[i].pod, failed_pods)
    /\ Returned =>
         /\ result.pods_evicted = RemovedInTrace
         /\ (\A k \in CandidateKeys :
               \/ \E i \in DOMAIN EvictResponsesOf(k) :
                    RespEvicted(EvictResponsesOf(k)[i]) \/ RespNotFound(EvictResponsesOf(k)[i])
               \/ \E i \in DOMAIN DeletesOf(k) : DeletesOf(k)[i].resp.ok)
            => result.success
    /\ ( /\ Returned
         /\ pod_list = ScenarioW1
         /\ options.ignore_daemonsets
         /\ options.force_delete_unmanaged
         /\ EvictResponsesOf("ns/pod-B") = <<RespOk>>
         /\ \A i \in DOMAIN EvictResponsesOf("ns/pod-C") : RespPdb(EvictResponsesOf("ns/pod-C")[i])
         /\ Len(DeletesOf("ns/pod-C")) = 1
         /\ DeletesOf("ns/pod-C")[1].resp.ok )
       => result = [kind |-> "ok", success |-> TRUE, pods_evicted |-> 2,
                    failed_pods |-> <<>>, force_deleted_pods |-> <<"ns/pod-C">>]

\* The scenario on node w1, with more than one PDB-blocked attempt on pod-C.
C8_Witness ==
    /\ Returned
    /\ pod_list = ScenarioW1
    /\ options.ignore_daemonsets
    /\ options.force_delete_unmanaged
    /\ max_attempts > 1
    /\ EvictResponsesOf("ns/pod-B") = <<RespOk>>
    /\ EvictResponsesOf("ns/pod-C") = [i \in 1..max_attempts |-> ErrPdb]
    /\ Len(DeletesOf("ns/pod-C")) = 1
    /\ DeletesOf("ns/pod-C")[1].resp.ok
    /\ result.force_deleted_pods = <<"ns/pod-C">>

\* The position of key k in the listing.
ListedAt(k) == CHOOSE i \in DOMAIN pod_list : PodKey(pod_list[i]) = k

\* The pod with key k has its final outcome: evicted, gone, a delete answered,
\* or recorded as failed.
HasOutcome(k) ==
    \/ \E i \in DOMAIN EvictResponsesOf(k) :
         RespEvicted(EvictResponsesOf(k)[i]) \/ RespNotFound(EvictResponsesOf(k)[i])
    \/ DeletesOf(k) # <<>>
    \/ InSeq(k, failed_pods)

\* C9: the candidates are in listing order and are processed one at a time in
\* that order: every request is for the current or an earlier candidate, the
\* requests of the trace never go back to an earlier candidate, and every
\* candidate before the current one has its final outcome.
C9_OnePodAtATimeInListingOrder ==
    /\ \A q1, q2 \in DOMAIN pods_to_evict :
         q1 < q2 => ListedAt(PodKey(pods_to_evict[q1])) < ListedAt(PodKey(pods_to_evict[q2]))
    /\ \A i \in DOMAIN trace :
         IsRequest(trace[i]) =>
           /\ trace[i].pod \in CandidateKeys
           /\ PosOf(trace[i].pod) <= idx
           /\ \A j \in DOMAIN trace :
                (j > i /\ IsRequest(trace[j])) => PosOf(trace[i].pod) <= PosOf(trace[j].pod)
    /\ \A q \in DOMAIN pods_to_evict :
         Finished(q) => HasOutcome(PodKey(pods_to_evict[q]))

\* A second candidate got a request after the first one was retried and
\* finished.
C9_Witness ==
    /\ total_pods > 1
    /\ idx = 2
    /\ Len(EvictResponsesOf(PodKey(pods_to_evict[1]))) > 1
    /\ Len(EvictResponsesOf(PodKey(pods_to_evict[2]))) > 0

\* C10: an eviction error that is neither not-found nor PDB-blocked is not
\* retried: no later eviction request is sent for that pod, and the pod goes
\* straight to the force-delete (flag on and unmanaged) or into failed_pods.
C10_OtherErrorNotRetried ==
    \A i \in DOMAIN trace :
      (trace[i].op = "evict" /\ RespOther(trace[i].resp)) =>
        LET k == trace[i].pod
            unmanaged == \A p \in ListedAs(k) : p.owner_kinds \cap ManagedKinds = {}
        IN  /\ \A j \in DOMAIN trace :
                 (j > i /\ trace[j].op = "evict") => trace[j].pod # k
            /\ IF options.force_delete_unmanaged /\ unmanaged
               THEN \/ i = Len(trace) /\ pc = "delete_in_loop"
                    \/ /\ i < Len(trace)
                       /\ trace[i + 1].op = "delete"
                       /\ trace[i + 1].pod = k
               ELSE /\ Count(k, failed_pods) = 1
                    /\ DeletesOf(k) = <<>>

\* Another error arrived after a PDB-blocked attempt, with attempts left: the
\* loop was left and the pod recorded as failed.
C10_Witness ==
    /\ pc = "after_loop"
    /\ attempts > 0
    /\ attempts < max_attempts
    /\ ~success
    /\ trace # <<>>
    /\ trace[Len(trace)].op = "evict"
    /\ trace[Len(trace)].resp = ErrInternal
    /\ InSeq(PodKey(pod_info), failed_pods)

\* ------------------------------------------------------------------------
\* Force-delete grace period
\* ------------------------------------------------------------------------

\* An unsigned 32-bit value as the 64-bit integer of the same value.
U32ToI64(u) == <<u[1], u[2], 0, 0>>

\* The grace period that the options ask for: the one set, 0 otherwise.
ConfiguredGrace ==
    IF options.grace_period_secs # None THEN options.grace_period_secs[1] ELSE I64(0)

\* C11: every delete request carries as its grace period the value of
\* grace_period_secs when it is set and 0 when it is not, for every value the
\* option can hold: negative values and values beyond 32 bits included.
C11_DeleteCarriesConfiguredGrace ==
    \A i \in DOMAIN trace :
        trace[i].op = "delete" => U32ToI64(trace[i].grace) = ConfiguredGrace

\* The part of C11 that the code keeps: for an unset grace period and for one
\* that fits 32 bits unsigned, the delete request carries the configured value.
C11_GraceInRangeCarried ==
    \A i \in DOMAIN trace :
        (trace[i].op = "delete" /\ ConfiguredGrace[3] = 0 /\ ConfiguredGrace[4] = 0)
            => U32ToI64(trace[i].grace) = ConfiguredGrace

\* ------------------------------------------------------------------------
\* Mirror pods
\* ------------------------------------------------------------------------

\* The listed pods that are not mirror pods.
NonMirrorListed ==
    {i \in DOMAIN pod_list : MirrorAnnotation \notin pod_list[i].annotations}

\* Key k is the key of a listed mirror pod.
MirrorKey(k) == \E p \in ListedAs(k) : MirrorAnnotation \in p.annotations

\* C12: a pod carrying the mirror annotation is excluded whatever the
\* options: no evict and no delete request is issued for it, it is not among
\* the candidates nor counted in their total, and it is counted neither in
\* pods_evicted nor listed in failed_pods or force_deleted_pods.
C12_MirrorPodsExcluded ==
    /\ \A i \in DOMAIN trace : IsRequest(trace[i]) => ~MirrorKey(trace[i].pod)
    /\ \A k \in CandidateKeys : ~MirrorKey(k)
    /\ total_pods <= Cardinality(NonMirrorListed)
    /\ Returned =>
         /\ result.pods_evicted + Len(result.failed_pods) <= Cardinality(NonMirrorListed)
         /\ \A i \in DOMAIN result.failed_pods : ~MirrorKey(result.failed_pods[i])
         /\ \A i \in DOMAIN result.force_deleted_pods :
                ~MirrorKey(result.force_deleted_pods[i])

\* A mirror pod was listed with both skip options off, next to a pod that was
\* a candidate and got a request.
C12_Witness ==
    /\ Returned
    /\ ~options.ignore_daemonsets
    /\ options.delete_emptydir_data
    /\ InSeq(StaticPod, pod_list)
    /\ total_pods = Len(pod_list) - 1
    /\ total_pods > 0
    /\ trace # <<>>

\* ------------------------------------------------------------------------
\* wait_for_node_ready: its result and its two phases
\* ------------------------------------------------------------------------

WaitReturned == wait_pc = "done"

NotReadyAnswers == {"NotReady", "Unknown", "Err"}

\* C13: the result has success = true only with time_taken_secs below
\* timeout_secs, on the first readiness probe that answers Ready, which ends
\* the wait; it has success = false only with time_taken_secs at or above
\* timeout_secs, after no readiness probe answered Ready.
C13_SuccessIffReadyBeforeTimeout ==
    /\ phase2_last = "Ready" => (WaitReturned /\ wait_result.success)
    /\ WaitReturned =>
         /\ wait_result.kind = "ok"
         /\ wait_result.success =>
              /\ wait_result.time_taken_secs < timeout_secs
              /\ phase2_last = "Ready"
         /\ ~wait_result.success =>
              /\ wait_result.time_taken_secs >= timeout_secs
              /\ phase2_last # "Ready"

\* The wait timed out past its timeout after readiness probes that answered
\* something else than Ready.
C13_Witness ==
    /\ WaitReturned
    /\ ~wait_result.success
    /\ timeout_secs > 0
    /\ wait_result.time_taken_secs > timeout_secs
    /\ phase2_last \in NotReadyAnswers

\* C14: the time spent in the disconnect phase is not taken from the budget
\* of the readiness phase: a failure is returned only when timeout_secs have
\* passed since the readiness phase was entered.
C14_ReadinessBudgetIndependent ==
    (WaitReturned /\ ~wait_result.success) => now - phase2_start >= timeout_secs

\* C15: a readiness probe that answers Err does not end the wait: polling
\* goes on, the call never returns Err, and a failure result is the timeout
\* and nothing else, however many probes failed.
C15_ProbeErrorDoesNotFail ==
    /\ wait_result.kind # "err"
    /\ (phase2_last = "Err" /\ ~WaitReturned) => wait_pc = "phase2"
    /\ (WaitReturned /\ ~wait_result.success) =>
         /\ wait_result.error = "Timed out"
         /\ wait_result.time_taken_secs >= timeout_secs

\* Ready was observed, and success returned, after two or more probe errors.
C15_Witness ==
    /\ WaitReturned
    /\ wait_result.success
    /\ phase2_errors >= 2

\* C16: the disconnect phase is entered only with wait_for_disconnect; its
\* first probe that answers NotReady, Unknown or Err ends it at once: the
\* readiness phase starts at the moment of that answer and the disconnect
\* loop probes no more.
C16_DisconnectEndsPhase1 ==
    /\ ~wait_for_disconnect => (phase1_last = "none" /\ wait_pc # "phase1")
    /\ phase1_last \in NotReadyAnswers =>
         /\ wait_pc \in {"phase2", "done"}
         /\ disconnected
         /\ phase2_start = phase1_answer_at

\* A probe error ended the disconnect phase after earlier probes answered Ready.
C16_Witness ==
    /\ phase1_last = "Err"
    /\ phase1_probe_at > disconnect_start
    /\ wait_pc = "phase2"

\* C17: the disconnect phase returns no result; no probe of it starts once
\* 60 seconds have passed since it began; when the node answered Ready on
\* every probe until then, the warning is emitted and the readiness phase is
\* entered.
C17_Phase1NeverFails ==
    /\ wait_result # NoResult => phase2_start >= 0
    /\ phase1_last # "none" =>
         phase1_probe_at - disconnect_start < DisconnectTimeoutSecs
    /\ (wait_for_disconnect /\ phase2_start >= 0 /\ ~disconnected) =>
         /\ phase1_last = "Ready"
         /\ phase2_start - disconnect_start >= DisconnectTimeoutSecs
         /\ progress_callback => MsgNoDisconnect \in progress

\* The node answered Ready throughout the disconnect phase: warning emitted,
\* readiness loop entered.
C17_Witness ==
    /\ wait_pc = "phase2"
    /\ wait_for_disconnect
    /\ ~disconnected
    /\ MsgNoDisconnect \in progress
    /\ phase2_start - disconnect_start >= DisconnectTimeoutSecs

\* ------------------------------------------------------------------------
\* The operation on one node
\* ------------------------------------------------------------------------

StepOrder ==
    <<"Idle", "Cordoning", "Draining", "AwaitingExternalReboot", "WaitingReady",
      "Uncordoning", "Done">>

\* The place of a step in the order; Failed comes after all of them.
Rank(st) ==
    IF st = "Failed" THEN Len(StepOrder) + 1
    ELSE CHOOSE i \in DOMAIN StepOrder : StepOrder[i] = st

\* The requests about the node with operation op, in order.
NodeRequestsOf(op) == SelectSeq(node_requests, LAMBDA q : q.op = op)

\* C18: the steps are entered in the order Idle, Cordoning, Draining,
\* AwaitingExternalReboot, WaitingReady, Uncordoning, Done, none twice and
\* none after a later one; Failed and Done are entered last and never left;
\* the drain is started only after a cordon patch that was accepted, and the
\* reboot is requested only after a drain that returned success = true.
C18_StepsInOrder ==
    /\ life_history[1] = "Idle"
    /\ life_pc = life_history[Len(life_history)]
    /\ \A i, j \in DOMAIN life_history :
         i < j =>
           /\ Rank(life_history[i]) < Rank(life_history[j])
           /\ life_history[i] \notin {"Failed", "Done"}
    /\ pc # "start" =>
         /\ node_requests # <<>>
         /\ node_requests[1].op = "cordon"
         /\ node_requests[1].resp.ok
    /\ NodeRequestsOf("reboot") # <<>> =>
         /\ Returned
         /\ result.success
         /\ result.failed_pods = <<>>

\* An operation went through every step to Done, with pods evicted on the way.
C18_Witness ==
    /\ life_pc = "Done"
    /\ life_history = StepOrder
    /\ result.pods_evicted > 0

\* C19: after a drain that returned success = false (pods in failed_pods),
\* the operation is Failed, the node is still unschedulable, and neither a
\* reboot nor an uncordon request is sent.
C19_FailedDrainStaysCordoned ==
    (Returned /\ (~result.success \/ result.failed_pods # <<>>)) =>
        /\ life_pc \in {"Draining", "Failed"}
        /\ unschedulable
        /\ NodeRequestsOf("uncordon") = <<>>
        /\ NodeRequestsOf("reboot") = <<>>

\* The operation failed on a drain that left a pod behind, with
\* uncordon_after_reboot on.
C19_Witness ==
    /\ life_pc = "Failed"
    /\ Returned
    /\ ~result.success
    /\ result.failed_pods # <<>>
    /\ options.uncordon_after_reboot
    /\ unschedulable

\* C20: WaitingReady is entered, and wait_for_node_ready called, only with
\* the option wait_for_node_ready on and after an accepted reboot; when the
\* wait ends without Ready (the timeout), the operation is Failed, the node
\* is still unschedulable, and no uncordon request is sent.
C20_WaitingReadyOnlyWhenAsked ==
    /\ InSeq("WaitingReady", life_history) =>
         /\ options.wait_for_node_ready
         /\ NodeRequestsOf("reboot") # <<>>
         /\ NodeRequestsOf("reboot")[1].resp.ok
    /\ wait_pc # "start" => InSeq("WaitingReady", life_history)
    /\ (WaitReturned /\ (~wait_result.success \/ phase2_last # "Ready")) =>
         /\ life_pc \in {"WaitingReady", "Failed"}
         /\ unschedulable
         /\ NodeRequestsOf("uncordon") = <<>>

\* The operation failed on a readiness wait that timed out after probing,
\* with uncordon_after_reboot on.
C20_Witness ==
    /\ life_pc = "Failed"
    /\ WaitReturned
    /\ ~wait_result.success
    /\ phase2_last \in NotReadyAnswers
    /\ options.uncordon_after_reboot

\* C21: Uncordoning is entered only with uncordon_after_reboot on and after
\* the step before it succeeded (the reboot accepted and, with
\* wait_for_node_ready, the wait returned success); an uncordon patch that
\* fails is reported, the operation is Done and not Failed, and the node is
\* left unschedulable.
C21_UncordonFailureStillDone ==
    /\ InSeq("Uncordoning", life_history) =>
         /\ options.uncordon_after_reboot
         /\ NodeRequestsOf("reboot") # <<>>
         /\ NodeRequestsOf("reboot")[1].resp.ok
         /\ options.wait_for_node_ready => (WaitReturned /\ wait_result.success)
    /\ NodeRequestsOf("uncordon") # <<>> => InSeq("Uncordoning", life_history)
    /\ \A i \in DOMAIN NodeRequestsOf("uncordon") :
         /\ life_pc = "Done"
         /\ ~InSeq("Failed", life_history)
         /\ IF NodeRequestsOf("uncordon")[i].resp.ok
            THEN ~unschedulable /\ life_error = ""
            ELSE unschedulable /\ life_error = "uncordon failed"

\* The uncordon patch failed after a readiness wait that succeeded.
C21_Witness ==
    /\ life_pc = "Done"
    /\ WaitReturned
    /\ wait_result.success
    /\ NodeRequestsOf("uncordon") # <<>>
    /\ ~NodeRequestsOf("uncordon")[1].resp.ok
    /\ unschedulable

\* ------------------------------------------------------------------------
\* The rollout over the fleet
\* ------------------------------------------------------------------------

RolloutStarted == rollout_pc \in {"running", "returned"}
RolloutReturned == rollout_pc = "returned"

\* The step of the node at position i of the visit order.
StepAt(i) == node_steps[visit_order[i].hostname]

\* The position of hostname h in the visit order, and in the list handed in.
VisitPos(h) == CHOOSE i \in DOMAIN visit_order : visit_order[i].hostname = h
InputPos(h) == CHOOSE i \in DOMAIN rollout_nodes : rollout_nodes[i].hostname = h

\* The steps issued for hostname h.
FleetRequestsOf(h) == SelectSeq(fleet_requests, LAMBDA q : q.node = h)

\* C22: at most one node at a time is between the start of Cordoning and its
\* terminal step: a node's operation has started only when every node before
\* it in the visit order is Done or Failed, and the steps issued follow the
\* visit order, node after node.
C22_OneNodeAtATime ==
    RolloutStarted =>
      /\ Cardinality({i \in DOMAIN visit_order : StepAt(i) \in ActiveSteps}) <= 1
      /\ \A i, j \in DOMAIN visit_order :
           (i < j /\ StepAt(j) # "Idle") => StepAt(i) \in {"Done", "Failed"}
      /\ \A a \in 1..(Len(fleet_requests) - 1) :
           VisitPos(fleet_requests[a].node) <= VisitPos(fleet_requests[a + 1].node)

\* The second node is being operated on after the first one ended.
C22_Witness ==
    /\ rollout_pc = "running"
    /\ Len(visit_order) >= 2
    /\ StepAt(1) \in {"Done", "Failed"}
    /\ StepAt(2) = "Draining"

\* C23: the visit order is the list handed in, sorted by ascending
\* selection order with the nodes that have none after the others, and equal
\* nodes in their input order; when the operator gave no selection order (all
\* None, as Action::ShowRollingOperations builds the list), the visit order is
\* the order of the input.
C23_VisitOrderStable ==
    RolloutStarted =>
      /\ Len(visit_order) = Len(rollout_nodes)
      /\ \A i \in DOMAIN rollout_nodes : InSeq(rollout_nodes[i], visit_order)
      /\ \A i, j \in DOMAIN visit_order :
           i < j =>
             LET a == visit_order[i]
                 b == visit_order[j]
             IN  /\ a.selection_order = None => b.selection_order = None
                 /\ (a.selection_order # None /\ b.selection_order # None) =>
                        a.selection_order[1] <= b.selection_order[1]
                 /\ a.selection_order = b.selection_order =>
                        InputPos(a.hostname) < InputPos(b.hostname)
      /\ (\A i \in DOMAIN rollout_nodes :
             rollout_nodes[i].selection_order \in {None, Some(0)}) =>
           /\ Len(visit_order) = Len(fleet_input)
           /\ \A i \in DOMAIN fleet_input : visit_order[i].hostname = fleet_input[i][1]

\* Three nodes, the third selected by the operator and visited first, the
\* other two after it in their input order.
C23_Witness ==
    /\ RolloutStarted
    /\ Len(visit_order) = 3
    /\ visit_order[1].hostname = fleet_input[3][1]
    /\ visit_order[1].selection_order # None
    /\ visit_order[2].selection_order = None
    /\ visit_order[2].hostname = fleet_input[1][1]
    /\ visit_order[3].hostname = fleet_input[2][1]

\* C24: under the continue policy a node that ends in Failed does not stop
\* the rollout: the status is never AbortedOnFailure and the RolloutRun that
\* is returned has status Completed and one outcome per node, in visit order,
\* each node with its own result, every node having been attempted.
C24_ContinueVisitsEveryNode ==
    failure_policy = "continue" =>
      /\ rollout_status # "AbortedOnFailure"
      /\ RolloutReturned =>
           /\ rollout_status = "Completed"
           /\ Len(outcomes) = Len(visit_order)
           /\ \A i \in DOMAIN visit_order :
                /\ outcomes[i].hostname = visit_order[i].hostname
                /\ StepAt(i) \in {"Done", "Failed"}
                /\ outcomes[i].outcome = IF StepAt(i) = "Failed" THEN "failed" ELSE "done"
                /\ FleetRequestsOf(visit_order[i].hostname) # <<>>

\* The three-node rollout whose second node fails its drain.
C24_Witness ==
    /\ RolloutReturned
    /\ failure_policy = "continue"
    /\ Len(outcomes) = 3
    /\ outcomes[1].outcome = "done"
    /\ outcomes[2].outcome = "failed"
    /\ outcomes[3].outcome = "done"
    /\ \E i \in DOMAIN fleet_requests :
         /\ fleet_requests[i].node = visit_order[2].hostname
         /\ fleet_requests[i].op = "Draining"
         /\ ~fleet_requests[i].ok

\* C25: under the abort policy, once a node has ended in Failed no step is
\* issued for any later node; the RolloutRun that is returned then has status
\* AbortedOnFailure, and records every later node as skipped, not as failed.
C25_AbortSkipsLaterNodes ==
    failure_policy = "abort" =>
      /\ \A i, j \in DOMAIN visit_order :
           (RolloutStarted /\ i < j /\ StepAt(i) = "Failed") =>
             /\ StepAt(j) = "Idle"
             /\ FleetRequestsOf(visit_order[j].hostname) = <<>>
      /\ RolloutReturned =>
           /\ Len(outcomes) = Len(visit_order)
           /\ rollout_status =
                IF \E i \in DOMAIN visit_order : StepAt(i) = "Failed"
                THEN "AbortedOnFailure" ELSE "Completed"
           /\ \A j \in DOMAIN visit_order :
                /\ outcomes[j].hostname = visit_order[j].hostname
                /\ outcomes[j].outcome =
                     IF StepAt(j) = "Failed" THEN "failed"
                     ELSE IF StepAt(j) = "Idle" THEN "skipped" ELSE "done"

\* The first node done, the second failed, the third skipped.
C25_Witness ==
    /\ RolloutReturned
    /\ failure_policy = "abort"
    /\ Len(outcomes) = 3
    /\ outcomes[1].outcome = "done"
    /\ outcomes[2].outcome = "failed"
    /\ outcomes[3].outcome = "skipped"
    /\ rollout_status = "AbortedOnFailure"

\* The RolloutRun is returned, complete: a status other than InProgress and
\* an outcome for every node, done or failed for each node that was attempted.
ReturnedComplete ==
    /\ RolloutReturned
    /\ rollout_status \in {"Completed", "AbortedOnFailure"}
    /\ Len(outcomes) = Len(visit_order)
    /\ \A i \in DOMAIN visit_order :
         /\ outcomes[i].hostname = visit_order[i].hostname
         /\ FleetRequestsOf(visit_order[i].hostname) # <<>> =>
              outcomes[i].outcome \in {"done", "failed"}

\* C26: whatever steps fail, a rollout ends by returning a RolloutRun that
\* describes every attempted node, with a status that is not InProgress.
C26_RolloutAlwaysReturns == <>ReturnedComplete

\* A rollout returned after a cordon, a drain and a reboot failed on three
\* different nodes.
C26_Witness ==
    /\ ReturnedComplete
    /\ \A op \in {"Cordoning", "Draining", "AwaitingExternalReboot"} :
         \E i \in DOMAIN fleet_requests :
            fleet_requests[i].op = op /\ ~fleet_requests[i].ok

\* ------------------------------------------------------------------------
\* The read-only probes (C27, C28, C30)
\* ------------------------------------------------------------------------

\* The latest call was of fn.
Called(fn) == last_call.fn = fn

\* The latest call's API request failed.
ApiFailed == ~last_call.input.ok

\* The counts a listed budget shows: those of its status, zero without one.
AllowedOf(pdb) == IF pdb.status = None THEN 0 ELSE pdb.status[1].disruptions_allowed
ExpectedOf(pdb) == IF pdb.status = None THEN 0 ELSE pdb.status[1].expected_pods

GotConditions ==
    LET c == NodeConditions(last_call.input.object)
    IN IF c = None THEN <<>> ELSE c[1]

\* The Ready conditions among them, in their order.
ReadyConditions == SelectSeq(GotConditions, LAMBDA c : c.type_ = "Ready")

\* C28: get_node_ready_status returns Ready only for a Ready condition with
\* status "True" and NotReady only for one with status "False"; it returns
\* Unknown when the node has no conditions or no Ready condition, and when
\* the Ready condition carries any other status. A failed get is returned as
\* an error.
C28_ReadyStatusMapping ==
    Called("get_node_ready_status") =>
        IF ApiFailed
        THEN /\ ~last_call.output.ok
             /\ last_call.output.error.variant = "ApiError"
        ELSE /\ last_call.output.ok
             /\ last_call.output.value \in {"Ready", "NotReady", "Unknown"}
             /\ last_call.output.value = "Ready"
                    => \E i \in 1..Len(ReadyConditions) : ReadyConditions[i].status = "True"
             /\ last_call.output.value = "NotReady"
                    => \E i \in 1..Len(ReadyConditions) : ReadyConditions[i].status = "False"
             /\ ReadyConditions = <<>> => last_call.output.value = "Unknown"
             /\ (ReadyConditions # <<>> /\ ReadyConditions[1].status \notin {"True", "False"})
                    => last_call.output.value = "Unknown"
             /\ (Len(ReadyConditions) = 1 /\ ReadyConditions[1].status = "True")
                    => last_call.output.value = "Ready"
             /\ (Len(ReadyConditions) = 1 /\ ReadyConditions[1].status = "False")
                    => last_call.output.value = "NotReady"

\* The node's Ready condition, listed after another condition that is "True",
\* has a status that is neither "True" nor "False": Unknown is returned.
C28_Witness ==
    /\ Called("get_node_ready_status")
    /\ ~ApiFailed
    /\ Len(GotConditions) = 2
    /\ GotConditions[1] = NodeCondition("MemoryPressure", "True")
    /\ GotConditions[2] = NodeCondition("Ready", "true")
    /\ last_call.output = Ok("Unknown")

\* The three reads that return a Result.
ResultReads == {"check_pod_health", "check_pdb_health", "get_node_ready_status"}

\* C30: when the API request of check_pod_health, check_pdb_health or
\* get_node_ready_status fails, the function returns an error, never a value
\* that looks healthy; node_exists alone maps a failed get to false. When the
\* request succeeds the three return a value and node_exists returns true.
C30_ReadsSurfaceApiFailure ==
    /\ (last_call.fn \in ResultReads /\ ApiFailed)
           => /\ ~last_call.output.ok
              /\ last_call.output.error.variant = "ApiError"
    /\ (last_call.fn \in ResultReads /\ ~ApiFailed) => last_call.output.ok
    /\ Called("node_exists") => (last_call.output = ~ApiFailed)

\* The listing of pods failed and check_pod_health returned the error.
C30_Witness ==
    /\ Called("check_pod_health")
    /\ last_call.input = ErrInternal
    /\ last_call.output = Err(ApiError(ErrorString(ErrInternal)))

\* ------------------------------------------------------------------------
\* Cordon and uncordon on their own (C29)
\* ------------------------------------------------------------------------

\* Every call so far was accepted by the API.
AllCallsSucceeded == \A i \in 1..Len(node_requests) : node_requests[i].resp.ok

\* C29: cordon_node and uncordon_node are idempotent: after any sequence of
\* successful calls, repeated ones included, the node is unschedulable
\* exactly when the last call was cordon_node, and the last call reported
\* success; the only requests the two functions issue are patches of the
\* node, never an eviction or a deletion of a pod.
C29_CordonIdempotent ==
    /\ \A i \in 1..Len(node_requests) : node_requests[i].op \in {"cordon", "uncordon"}
    /\ trace = <<>>
    /\ (node_requests # <<>> /\ AllCallsSucceeded)
           => /\ unschedulable = (node_requests[Len(node_requests)].op = "cordon")
              /\ last_call.output = Ok([success |-> TRUE, error |-> ""])

\* A cordoned node was uncordoned twice and then cordoned, every call
\* accepted: it is unschedulable again.
C29_Witness ==
    /\ Len(node_requests) = 3
    /\ AllCallsSucceeded
    /\ node_requests[1].op = "uncordon"
    /\ node_requests[2].op = "uncordon"
    /\ node_requests[3].op = "cordon"
    /\ Called("cordon_node")
    /\ unschedulable

\* ------------------------------------------------------------------------
\* The counters and lists of a drain (C33, C34, C35, C37)
\* ------------------------------------------------------------------------

\* C33: when drain returns a DrainResult every candidate has exactly one
\* final outcome: pods_evicted + len(failed_pods) is the number of candidates
\* (total_pods, the N of "Found N pods to evict"), and
\* len(force_deleted_pods) <= pods_evicted <= N. While the drain runs the
\* same holds of the candidates the for loop has left behind.
C33_OneOutcomePerCandidate ==
    /\ Returned =>
         /\ result.pods_evicted + Len(result.failed_pods) = total_pods
         /\ total_pods = Len(pods_to_evict)
         /\ Len(result.force_deleted_pods) <= result.pods_evicted
         /\ result.pods_evicted <= total_pods
    /\ pc \in {"while", "return", "done"} =>
         /\ evicted + Len(failed_pods) \in {idx - 1, idx}
         /\ Len(force_deleted_pods) <= evicted

\* Three candidates: one evicted, one force-deleted, one failed.
C33_Witness ==
    /\ Returned
    /\ total_pods = 3
    /\ result.pods_evicted = 2
    /\ Len(result.force_deleted_pods) = 1
    /\ Len(result.failed_pods) = 1

\* C34: no candidate is recorded twice: a pod is at most once in failed_pods,
\* at most once in force_deleted_pods, never in both, and gets at most one
\* delete request; the branch after the loop does not run for a pod that the
\* other-error branch in the loop has handled.
C34_NoCandidateRecordedTwice ==
    \A k \in CandidateKeys :
        /\ Count(k, failed_pods) <= 1
        /\ Count(k, force_deleted_pods) <= 1
        /\ ~(InSeq(k, failed_pods) /\ InSeq(k, force_deleted_pods))
        /\ Len(DeletesOf(k)) <= 1

\* With two attempts allowed, a pod was PDB-blocked once and then refused
\* with another error: it is in failed_pods once and the loop has moved on.
C34_Witness ==
    /\ max_attempts = 2
    /\ \E k \in CandidateKeys :
         /\ Finished(PosOf(k))
         /\ Len(EvictResponsesOf(k)) = 2
         /\ RespPdb(EvictResponsesOf(k)[1])
         /\ RespOther(EvictResponsesOf(k)[2])
         /\ Count(k, failed_pods) = 1

\* The requests of one kind issued for key k.
EvictsOf(k) == SelectSeq(trace, LAMBDA e : e.op = "evict" /\ e.pod = k)

\* For each candidate at most max_attempts eviction requests and at most one
\* delete request, and requests for candidates only, so that the number of
\* mutating requests never exceeds candidates * (max_attempts + 1).
RequestsBounded ==
    /\ \A i \in DOMAIN trace : IsRequest(trace[i]) /\ trace[i].pod \in CandidateKeys
    /\ \A k \in CandidateKeys :
         /\ Len(EvictsOf(k)) <= max_attempts
         /\ Len(DeletesOf(k)) <= 1
    /\ Len(trace) <= total_pods * (max_attempts + 1)

\* C35: a drain always terminates, for any finite pod list and any sequence
\* of API responses (each request being answered): it returns a DrainResult
\* or the error of the listing, having issued at most max_attempts eviction
\* requests and one delete request per candidate.
C35_DrainTerminatesBounded == []RequestsBounded /\ <>(pc \in {"done", "error"})

\* A drain that used its whole budget: the one candidate was PDB-blocked
\* through both attempts and then force-deleted.
C35_Witness ==
    /\ Returned
    /\ total_pods = 1
    /\ max_attempts = 2
    /\ Len(trace) = total_pods * (max_attempts + 1)

\* An eviction response that is a success or a genuine not-found (the API
\* answered 404).
GenuinelyGone(r) == r.ok \/ r.code = 404

\* The candidates that left the node: evicted, found gone, or deleted.
LeftTheNode ==
    {k \in CandidateKeys :
        \/ \E i \in DOMAIN EvictResponsesOf(k) : GenuinelyGone(EvictResponsesOf(k)[i])
        \/ \E i \in DOMAIN DeletesOf(k) : DeletesOf(k)[i].resp.ok}

\* C37: an eviction response that is PDB-blocked or another error never
\* increments pods_evicted unless a force-delete of that pod succeeded:
\* pods_evicted counts only candidates whose eviction succeeded or was
\* answered not-found, or whose delete succeeded, whatever the error text
\* contains.
C37_OnlyGonePodsCounted == evicted <= Cardinality(LeftTheNode)

\* ------------------------------------------------------------------------
\* Termination of the wait (C36)
\* ------------------------------------------------------------------------

\* Every probe of the disconnect phase starts before the phase's bound.
Phase1WithinBound ==
    phase1_probe_at # -1 => phase1_probe_at - disconnect_start < DisconnectTimeoutSecs

\* A turn of the readiness loop that finds timeout_secs elapsed returns the
\* failure at once, without a probe.
Phase2ReturnsAtTimeout ==
    (wait_pc = "phase2" /\ now - start >= timeout_secs) =>
        /\ wait_pc' = "done"
        /\ wait_result'.kind = "ok"
        /\ ~wait_result'.success
        /\ phase2_last' = phase2_last
        /\ now' = now

\* C36: wait_for_node_ready always eventually returns when time advances and
\* every probe returns: no disconnect probe starts at or after the 60 s bound
\* of phase 1, and the readiness loop returns at its first turn at or after
\* timeout_secs, at once and without a probe when timeout_secs has elapsed on
\* entry (timeout_secs = 0).
C36_WaitTerminates ==
    /\ <>(wait_pc = "done")
    /\ []Phase1WithinBound
    /\ [][Phase2ReturnsAtTimeout]_vars

\* timeout_secs = 0: the wait returned the failure without a single probe.
C36_Witness ==
    /\ wait_pc = "done"
    /\ timeout_secs = 0
    /\ ~wait_for_disconnect
    /\ phase2_last = "none"
    /\ ~wait_result.success
    /\ now = start

\* C39: when listing the node's pods fails, the drain returns an error and
\* no DrainResult, and it has issued no eviction request, no delete request
\* and no progress message, whatever the progress sink.
C39_FailedListingDoesNothing ==
    pc = "error" =>
        /\ result = [kind |-> "err"]
        /\ trace = <<>>
        /\ drain_progress = <<>>

\* A drain given a sink whose listing failed.
C39_Witness ==
    /\ pc = "error"
    /\ drain_callback = "returns"
    /\ pod_list # <<>>

\* The position in the trace of the first eviction request for pod k (0 when
\* there is none).
FirstEvictOf(k) ==
    IF \E i \in DOMAIN trace : trace[i].op = "evict" /\ trace[i].pod = k
    THEN CHOOSE i \in DOMAIN trace :
            /\ trace[i].op = "evict" /\ trace[i].pod = k
            /\ \A j \in 1..(i - 1) : ~(trace[j].op = "evict" /\ trace[j].pod = k)
    ELSE 0

\* C38: with a sink that takes the messages, (a) once the listing is read the
\* first message is the candidate count, given before any request; (b) before
\* the first eviction request for a pod there is a message "Evicting <pod>
\* (i/N)" naming it; (c) every response of the trace has a message given after
\* it and before the request that follows.
C38_ProgressStepByStep ==
    (drain_callback = "returns" /\ pc \notin {"start", "error"}) =>
        /\ drain_progress # <<>>
        /\ drain_progress[1] = Said(ProgressText("found", <<>>, total_pods, 0), 0)
        /\ \A c \in DOMAIN pods_to_evict :
              LET k == PodKey(pods_to_evict[c])
                  named == ProgressText("evicting", pods_to_evict[c], c, total_pods)
              IN FirstEvictOf(k) > 0 =>
                    \E m \in DOMAIN drain_progress :
                        /\ drain_progress[m].text = named
                        /\ drain_progress[m].after < FirstEvictOf(k)
        /\ \A i \in DOMAIN trace :
              \E m \in DOMAIN drain_progress : drain_progress[m].after = i

\* A returned drain of two candidates, one of them retried after a disruption
\* budget refusal, all of it told to the sink.
C38_Witness ==
    /\ Returned
    /\ drain_callback = "returns"
    /\ total_pods = 2
    /\ Len(trace) >= 3
    /\ \E i \in DOMAIN trace : Classify(trace[i].resp) = "pdb"
    /\ Len(drain_progress) >= 6

\* C31: the progress sink cannot block or fail a drain: no call of the sink
\* keeps the drain inside the call or unwinds it, so the drain is never
\* stopped short of its result by the sink.
C31_SinkCannotStopDrain == pc \notin {"blocked", "panicked"}

\* The fetches sent to the VIP / context endpoint, and to the address ip.
VipFetches == {i \in DOMAIN disc_trace : disc_trace[i].target = "vip"}
FetchesTo(ip) == {i \in DOMAIN disc_trace : disc_trace[i].target = ip}
DiscoveryReturned == disc_pc = "done"

\* C32: the VIP / context endpoint is tried at most 3 times, with a sleep
\* after the first and the second failed attempt and none after the third or
\* anywhere else; a successful fetch is the last one made and its members
\* are what is returned; a fallback node is contacted only after three failed
\* VIP attempts; each entry of the fallback list is tried at most once; an
\* error is returned only when all three VIP attempts and every fallback
\* node failed, and it is the error of the last fetch made.
C32_VipRetriesThenFallbackOnce ==
    /\ Cardinality(VipFetches) <= 3
    /\ \A i \in DOMAIN disc_trace :
          LET f == disc_trace[i]
          IN /\ f.slept > 0 <=> (f.target = "vip" /\ ~f.resp.ok /\ i < 3)
             /\ f.resp.ok => i = Len(disc_trace) /\ disc_result = Ok(f.resp.value)
             /\ f.target # "vip" =>
                   /\ i > 3
                   /\ \A j \in 1..3 : disc_trace[j].target = "vip" /\ ~disc_trace[j].resp.ok
    /\ \A ip \in FallbackIps :
          Cardinality(FetchesTo(ip))
              <= Cardinality({q \in DOMAIN fallback_node_ips : fallback_node_ips[q] = ip})
    /\ (DiscoveryReturned /\ ~disc_result.ok) =>
          /\ Len(disc_trace) = 3 + Len(fallback_node_ips)
          /\ \A i \in DOMAIN disc_trace : ~disc_trace[i].resp.ok
          /\ disc_result = Err(disc_trace[Len(disc_trace)].resp.error)
    /\ (DiscoveryReturned /\ disc_result.ok) => disc_trace[Len(disc_trace)].resp.ok

\* The call returned an error after three VIP attempts and two different
\* fallback nodes, the last two failures being different errors.
C32_Witness ==
    /\ DiscoveryReturned
    /\ ~disc_result.ok
    /\ Cardinality(VipFetches) = 3
    /\ Len(disc_trace) = 5
    /\ disc_trace[4].target # disc_trace[5].target
    /\ disc_trace[4].resp.error # disc_trace[5].resp.error
    /\ disc_trace[1].slept = 100
    /\ disc_trace[2].slept = 200

====
